---- MODULE Spec2Model ----
(***************************************************************************)
(* url-tools: the streaming link crawler                                   *)
(* (server/api/scrape-links-stream.post.ts) with the helpers it calls      *)
(* (utils/link-analyzer, utils/url-validator).                             *)
(*                                                                         *)
(* A URL string is a sequence of tokens: the first token is the lexed      *)
(* "scheme://host" part, every further token is one character of the path, *)
(* the query ("?...") or the fragment ("#...").  A string whose first      *)
(* token is not such an origin does not parse (new URL throws).            *)
(*                                                                         *)
(* JavaScript runs the handler on one thread: the 'close' callback of the  *)
(* response can only run while the handler is suspended in an await.  The  *)
(* program counter pc therefore distinguishes the await points, where      *)
(* Close may interleave, from the synchronous positions between them.      *)
(***************************************************************************)
EXTENDS Integers, Sequences, FiniteSets, TLC

VARIABLES
    req,         \* the request body
    pc,          \* position of the handler
    isClosed,    \* let isClosed (set by res.on('close'))
    resEnded,    \* the number of times res.end() has been called
    queue,       \* the frontier: const queue
    visited,     \* const visited = new Set<string>()
    results,     \* const results: LinkResult[]
    stream,      \* the events written with res.write, in order
    item,        \* the frontier item being processed
    links,       \* the links of the current page not yet processed
    attempt,     \* fetchWithRetry: the loop variable attempt (0 outside a call)
    lastError,   \* fetchWithRetry: the message of lastError ("" outside a call)
    retryCount,  \* the retryCount fetchWithRetry returned for the current page
    attemptLog,  \* history: outcomes of the attempts of the fetchWithRetry call
                 \* in progress or just ended
    pushed,      \* history: every URL ever pushed onto the queue, in push order
    pageLog,     \* history: every page whose fetch was started, with its outcome
    nResolve,    \* history: number of getRedirectChain calls made
    inFlight,    \* history: network requests issued and not yet settled
    call         \* a helper function applied on its own: its argument and,
                 \* once applied, its result (NoCall while the handler runs)

vars == <<req, pc, isClosed, resEnded, queue, visited, results, stream, item,
          links, attempt, lastError, retryCount, attemptLog, pushed, pageLog,
          nResolve, inFlight, call>>

----------------------------------------------------------------------------
(* Bounds of the model *)

MaxReqUrls == 2
MaxReqDepth == 2
MaxReqRetries == 1
\* longest run of redirects a server script of the helper specification holds
MaxDrawnRedirects == 12
\* most characters after the origin in a URL string handed to normalizeUrl
MaxUrlChars == 4
\* most pieces in a body handed to extractLinks on its own
MaxBodyPieces == 3
\* most characters in a prefix of the path filter handed to
\* matchesPathFilter on its own
MaxPrefixChars == 3

(* Program constants *)

DefaultMaxUrls == 100
MinMaxUrls == 1
MaxMaxUrls == 10000
MinRetries == 0
MaxRetries == 5
ServerErrorFloor == 500
RedirectFloor == 300
RedirectCeil == 400
MaxRedirects == 10
UrlFilterLimit == 200

Min2(a, b) == IF a < b THEN a ELSE b
Max2(a, b) == IF a > b THEN a ELSE b

----------------------------------------------------------------------------
(* URL strings *)

NULL == <<>>

Origins == {"https://example.com", "https://other.com", "http://127.0.0.1"}

SchemeOf(o) ==
    CASE o = "https://example.com" -> "https:"
      [] o = "https://other.com" -> "https:"
      [] o = "http://127.0.0.1" -> "http:"

HostOf(o) ==
    CASE o = "https://example.com" -> <<"example", "com">>
      [] o = "https://other.com" -> <<"other", "com">>
      [] o = "http://127.0.0.1" -> <<"127", "0", "0", "1">>

\* new URL(s) succeeds
CanParse(s) == Len(s) >= 1 /\ s[1] \in Origins

\* index of the first token of s that lies in cs, Len(s)+1 when there is none
FirstIdx(s, cs) ==
    IF \E i \in 1..Len(s) : s[i] \in cs
    THEN CHOOSE i \in 1..Len(s) : s[i] \in cs /\ \A j \in 1..(i-1) : s[j] \notin cs
    ELSE Len(s) + 1

\* URL.pathname: an empty path of an http(s) URL reads "/"
Pathname(s) ==
    LET r == Tail(s)
        p == SubSeq(r, 1, FirstIdx(r, {"?", "#"}) - 1)
    IN IF p = <<>> THEN <<"/">> ELSE p

\* the query as href serializes it, "?" included
Query(s) ==
    LET r == Tail(s)
    IN SubSeq(r, FirstIdx(r, {"?", "#"}), FirstIdx(r, {"#"}) - 1)

Hostname(s) == HostOf(s[1])

Protocol(s) == SchemeOf(s[1])

\* URL.href after parsed.hash = ''
HrefNoHash(s) == <<s[1]>> \o Pathname(s) \o Query(s)

normalizeUrl(url) ==
    IF ~CanParse(url) THEN NULL
    ELSE LET normalized == HrefNoHash(url)
         IN IF normalized[Len(normalized)] = "/" /\ Pathname(url) # <<"/">>
            THEN SubSeq(normalized, 1, Len(normalized) - 1)
            ELSE normalized

\* mutant: every link that parses counts as internal
isInternalLinkAnyHost(baseUrl, targetUrl) == CanParse(baseUrl) /\ CanParse(targetUrl)

isInternalLink(baseUrl, targetUrl) ==
    IF CanParse(baseUrl) /\ CanParse(targetUrl)
    THEN Hostname(baseUrl) = Hostname(targetUrl)
    ELSE FALSE

PrivateB == {"16", "17", "18", "19", "20", "21", "22", "23", "24", "25", "26",
             "27", "28", "29", "30", "31"}

isAllowedUrl(url) ==
    IF ~CanParse(url) THEN FALSE
    ELSE LET h == Hostname(url)
         IN /\ Protocol(url) \in {"http:", "https:"}
            /\ h \notin {<<"localhost">>, <<"127", "0", "0", "1">>, <<"::1">>}
            /\ ~(Len(h) > 1 /\ h[Len(h)] = "localhost")
            /\ ~(Len(h) > 1 /\ h[1] = "10")
            /\ ~(Len(h) > 2 /\ h[1] = "192" /\ h[2] = "168")
            /\ ~(Len(h) > 2 /\ h[1] = "172" /\ h[2] \in PrivateB)
            /\ ~(Len(h) > 2 /\ h[1] = "169" /\ h[2] = "254")
            /\ h # <<"0", "0", "0", "0">>

----------------------------------------------------------------------------
(* The URLs, page bodies and network outcomes the model draws from *)

uA == <<"https://example.com", "/", "a">>
uASlash == <<"https://example.com", "/", "a", "/">>
uB == <<"https://example.com", "/", "b">>
uBFrag == <<"https://example.com", "/", "b", "#", "x">>
uD == <<"https://example.com", "/", "d">>
uC == <<"https://other.com", "/", "c">>
uL == <<"http://127.0.0.1", "/">>
uBad == <<"a", "b">>
hFrag == <<"#", "x">>

\* request.urls
SeedLists == {<<uA>>, <<uASlash, uL, uA>>, <<uBad, uA, uC>>}

\* a body is the sequence of its pieces in document order: the href of an
\* anchor, or one of the pieces of markup below
XmlDecl == <<"<?xml">>
XmlDeclUpper == <<"<?XML">>
Space == <<" ">>
UrlsetTag == <<"<urlset">>
SitemapIndexTag == <<"<sitemapindex">>
\* <loc>url</loc>
Loc(url) == <<"<loc>">> \o url

\* a page body of the crawls: anchors only
Bodies == {<<>>, <<hFrag, uB, uBFrag, uL>>, <<uA, uD>>}

\* what one fetch() call of fetchWithRetry can do
AttemptOutcomes ==
    {[kind |-> "response", status |-> s, msg |-> ""] : s \in {200, 404, 500}}
    \cup {[kind |-> "throw", status |-> 0, msg |-> "fetch failed"]}

\* what the HEAD requests of one getRedirectChain call answer, hop by hop
\* a thrown hop carries the name and the message of the Error that fetch
\* rejects with
Hop(status, location) ==
    [kind |-> "response", status |-> status, location |-> location, name |-> "", msg |-> ""]
HopThrow(name, msg) ==
    [kind |-> "throw", status |-> 0, location |-> FALSE, name |-> name, msg |-> msg]
\* controller.abort() after timeoutMs rejects the fetch with an AbortError
Aborted == HopThrow("AbortError", "This operation was aborted")
\* a connection that cannot be made rejects it with a TypeError
Unreachable == HopThrow("TypeError", "fetch failed")
RedirectScripts == {<<Hop(301, TRUE), Hop(200, FALSE)>>, <<Aborted>>}

----------------------------------------------------------------------------
(* Filters *)

StartsWith(s, p) == Len(s) >= Len(p) /\ SubSeq(s, 1, Len(p)) = p

RECURSIVE StripTrailingSlashes(_)
\* p.replace(/\/+$/, '')
StripTrailingSlashes(p) ==
    IF p # <<>> /\ p[Len(p)] = "/"
    THEN StripTrailingSlashes(SubSeq(p, 1, Len(p) - 1))
    ELSE p

RECURSIVE Trim(_)
Trim(s) ==
    IF s # <<>> /\ s[1] = " " THEN Trim(Tail(s))
    ELSE IF s # <<>> /\ s[Len(s)] = " " THEN Trim(SubSeq(s, 1, Len(s) - 1))
    ELSE s

RECURSIVE SplitComma(_)
\* s.split(',')
SplitComma(s) ==
    LET k == FirstIdx(s, {","})
    IN IF k > Len(s) THEN <<s>>
       ELSE <<SubSeq(s, 1, k - 1)>> \o SplitComma(SubSeq(s, k + 1, Len(s)))

\* body.pathInclude ? body.pathInclude.split(',').map(p => p.trim()).filter(Boolean) : []
PathList(raw) ==
    IF raw = <<>> THEN <<>>
    ELSE LET parts == SplitComma(raw)
         IN SelectSeq([i \in DOMAIN parts |-> Trim(parts[i])], LAMBDA p : p # <<>>)

\* mutant: startsWith without the "/" that ends the prefix
PathMatchesAnyContinuation(path, prefix) == StartsWith(path, StripTrailingSlashes(prefix))

PathMatches(path, prefix) ==
    LET p == StripTrailingSlashes(prefix)
    IN path = p \/ StartsWith(path, p \o <<"/">>)

matchesPathFilter(url, pathIncludes, pathExcludes) ==
    IF ~CanParse(url) THEN TRUE
    ELSE LET path == Pathname(url)
         IN IF \E i \in DOMAIN pathExcludes : PathMatches(path, pathExcludes[i])
            THEN FALSE
            ELSE IF Len(pathIncludes) > 0
                 THEN \E i \in DOMAIN pathIncludes : PathMatches(path, pathIncludes[i])
                 ELSE TRUE

\* mutant: every pattern compiles
RegexCompilesAnything(p) == p = p

\* new RegExp(p) succeeds; the patterns drawn are literal characters, or "("
\* (an unterminated group, which does not compile)
RegexCompiles(p) == \A i \in DOMAIN p : p[i] # "("

\* mutant: the length limit excludes 200
urlFilterRegexBelowLimit(urlFilter) ==
    IF urlFilter # <<>> /\ Len(urlFilter) < UrlFilterLimit /\ RegexCompiles(urlFilter)
    THEN urlFilter
    ELSE NULL

\* urlFilterRegex, NULL when there is none
urlFilterRegex(urlFilter) ==
    IF urlFilter # <<>> /\ Len(urlFilter) <= UrlFilterLimit /\ RegexCompiles(urlFilter)
    THEN urlFilter
    ELSE NULL

RECURSIVE Alternatives(_)
\* the alternatives of a pattern, which "|" separates
Alternatives(regex) ==
    LET k == FirstIdx(regex, {"|"})
    IN IF k > Len(regex) THEN {regex}
       ELSE {SubSeq(regex, 1, k - 1)} \cup Alternatives(SubSeq(regex, k + 1, Len(regex)))

\* regex.test(url) of a pattern whose alternatives are literal characters:
\* one of them occurs in url
RegexTest(regex, url) ==
    \E a \in Alternatives(regex) :
        \E i \in 1..(Len(url) - Len(a) + 1) : SubSeq(url, i, i + Len(a) - 1) = a

\* mutant: the regex filter is not applied
PassesFiltersPathOnly(url) ==
    matchesPathFilter(url, PathList(req.pathInclude), PathList(req.pathExclude))

\* the two filter checks of the handler, applied to an item or a link target
PassesFilters(url) ==
    /\ (urlFilterRegex(req.urlFilter) # NULL => RegexTest(urlFilterRegex(req.urlFilter), url))
    /\ matchesPathFilter(url, PathList(req.pathInclude), PathList(req.pathExclude))

----------------------------------------------------------------------------
(* link-analyzer: extractLinks, getRedirectChain, formatRedirectChain *)

\* href.startsWith('#'): the anchors extractLinks ignores (the model draws no
\* javascript:, mailto: or tel: hrefs)
IgnoredHref(href) == href # <<>> /\ href[1] = "#"

Markup == {"<?xml", "<?XML", " ", "<urlset", "<sitemapindex", "<loc>"}

\* $('a[href]') and $('loc')
IsAnchor(piece) == piece = <<>> \/ piece[1] \notin Markup
IsLoc(piece) == piece # <<>> /\ piece[1] = "<loc>"

RECURSIVE TrimBody(_)
\* html.trim()
TrimBody(html) ==
    IF html # <<>> /\ html[1] = Space THEN TrimBody(Tail(html))
    ELSE IF html # <<>> /\ html[Len(html)] = Space
         THEN TrimBody(SubSeq(html, 1, Len(html) - 1))
         ELSE html

\* toLowerCase(), of the pieces the model draws
ToLowerCase(html) ==
    [i \in DOMAIN html |-> IF html[i] = XmlDeclUpper THEN XmlDecl ELSE html[i]]

isSitemap(html) ==
    LET trimmed == ToLowerCase(TrimBody(html))
    IN \/ (trimmed # <<>> /\ trimmed[1] = XmlDecl)
       \/ \E i \in DOMAIN trimmed : trimmed[i] = UrlsetTag
       \/ \E i \in DOMAIN trimmed : trimmed[i] = SitemapIndexTag

RECURSIVE SitemapFrom(_, _, _)
\* the .each() loop of extractLinksFromSitemap over the <loc> elements still
\* to visit
SitemapFrom(locs, baseUrl, seenUrls) ==
    IF locs = <<>> THEN <<>>
    ELSE LET url == Trim(Tail(Head(locs)))
             normalizedUrl == normalizeUrl(url)
         IN IF url = <<>> \/ normalizedUrl = NULL \/ normalizedUrl \in seenUrls
            THEN SitemapFrom(Tail(locs), baseUrl, seenUrls)
            ELSE <<[targetUrl |-> normalizedUrl,
                    isInternal |-> isInternalLink(baseUrl, normalizedUrl)]>>
                 \o SitemapFrom(Tail(locs), baseUrl, seenUrls \cup {normalizedUrl})

extractLinksFromSitemap(xml, baseUrl) == SitemapFrom(SelectSeq(xml, IsLoc), baseUrl, {})

RECURSIVE ExtractFrom(_, _, _)
\* the .each() loop of extractLinks over the hrefs still to visit, seenUrls
\* being the targets already collected
ExtractFrom(hrefs, baseUrl, seenUrls) ==
    IF hrefs = <<>> THEN <<>>
    ELSE LET href == Head(hrefs)
             normalizedUrl == normalizeUrl(href)
         IN IF IgnoredHref(href) \/ normalizedUrl = NULL \/ normalizedUrl \in seenUrls
            THEN ExtractFrom(Tail(hrefs), baseUrl, seenUrls)
            ELSE <<[targetUrl |-> normalizedUrl,
                    isInternal |-> isInternalLink(baseUrl, normalizedUrl)]>>
                 \o ExtractFrom(Tail(hrefs), baseUrl, seenUrls \cup {normalizedUrl})

extractLinks(html, baseUrl) ==
    IF isSitemap(html)
    THEN extractLinksFromSitemap(html, baseUrl)
    ELSE ExtractFrom(SelectSeq(html, IsAnchor), baseUrl, {})

\* the response of hop number n (from 1) of a script; a script shorter than
\* the resolution repeats, which is what a redirect cycle answers
HopAt(script, n) == script[((n - 1) % Len(script)) + 1]

IsRedirect(hop) ==
    hop.status >= RedirectFloor /\ hop.status < RedirectCeil /\ hop.location

\* chain.push({ url: currentUrl, status }): currentUrl is named by its
\* place in the path of the redirects, 1 being the URL asked for
RedirectStep(n, status) == [url |-> n, status |-> status]

\* mutant: the message of the error whatever its name
errorMsgOfMessage(hop) == hop.msg

\* error.name === 'AbortError' ? 'Timeout' : error.message
errorMsg(hop) == IF hop.name = "AbortError" THEN "Timeout" ELSE hop.msg

RECURSIVE RedirectLoop(_, _, _, _)
\* the while loop of getRedirectChain, entered with redirectCount and chain
RedirectLoop(script, redirectCount, chain, maxRedirects) ==
    IF ~(redirectCount < maxRedirects)
    THEN [chain |-> chain, finalUrl |-> redirectCount + 1,
          finalStatus |-> 0, error |-> "Too many redirects"]
    ELSE LET hop == HopAt(script, redirectCount + 1)
         IN IF hop.kind = "throw"
            THEN [chain |-> chain, finalUrl |-> redirectCount + 1,
                  finalStatus |-> 0, error |-> errorMsg(hop)]
            ELSE IF IsRedirect(hop)
                 THEN RedirectLoop(script, redirectCount + 1,
                                   Append(chain, RedirectStep(redirectCount + 1, hop.status)),
                                   maxRedirects)
                 ELSE [chain |-> Append(chain, RedirectStep(redirectCount + 1, hop.status)),
                       finalUrl |-> redirectCount + 1,
                       finalStatus |-> hop.status, error |-> ""]

\* mutant: the cap one lower
getRedirectChainCapNine(script) == RedirectLoop(script, 0, <<>>, MaxRedirects - 1)

\* mutant: the cap one higher
getRedirectChainCapEleven(script) == RedirectLoop(script, 0, <<>>, MaxRedirects + 1)

\* error "" stands for the error field left unset
getRedirectChain(script) == RedirectLoop(script, 0, <<>>, MaxRedirects)

\* chain.map(step => step.status.toString()).join(' -> '): the statuses of
\* the steps, in order
formatRedirectChain(chain) == [i \in DOMAIN chain |-> chain[i].status]

----------------------------------------------------------------------------
(* The request, as the handler reads it *)

\* mutant: the upper limit is excluded
ClampBelowUpper(v, lo, hi) == Min2(Max2(v, lo), hi - 1)

Clamp(v, lo, hi) == Min2(Max2(v, lo), hi)

\* Math.min(Math.max(body.maxUrls || 100, 1), 10000)
maxUrls ==
    Clamp(IF req.maxUrls = 0 THEN DefaultMaxUrls ELSE req.maxUrls, MinMaxUrls, MaxMaxUrls)

\* Math.min(Math.max(body.settings?.retries ?? 1, 0), 5), for a request that
\* states settings.retries
retries == Clamp(req.retries, MinRetries, MaxRetries)

\* mutant: no hostname is a base domain
baseDomainsNone == {}

\* hostnames of the request's urls that parse
baseDomains == {Hostname(req.urls[i]) : i \in {j \in DOMAIN req.urls : CanParse(req.urls[j])}}

\* the settings that do not bound the crawl: sameDomainOnly, settings.retries
\* and the three filter strings
Profiles ==
    {[sameDomainOnly |-> FALSE, retries |-> 0,
      urlFilter |-> <<>>, pathInclude |-> <<>>, pathExclude |-> <<>>],
     [sameDomainOnly |-> TRUE, retries |-> MaxReqRetries,
      urlFilter |-> <<"(">>, pathInclude |-> <<>>, pathExclude |-> <<"/", "d", "/", ",", " ">>],
     [sameDomainOnly |-> TRUE, retries |-> 0,
      urlFilter |-> <<"/", "a", "|", "/", "b">>,
      pathInclude |-> <<"/", "a", ",", " ", "/", "b", ",", "/", "d">>,
      pathExclude |-> <<>>]}

Requests ==
    {[urls |-> u, recursive |-> r, maxUrls |-> m, maxDepth |-> d,
      sameDomainOnly |-> p.sameDomainOnly, retries |-> p.retries,
      urlFilter |-> p.urlFilter, pathInclude |-> p.pathInclude,
      pathExclude |-> p.pathExclude] :
        u \in SeedLists, r \in BOOLEAN, m \in 0..MaxReqUrls, d \in (-1)..MaxReqDepth,
        p \in Profiles}

----------------------------------------------------------------------------
(* The event stream *)

\* mutant: emit without the isClosed test
EmitUnguarded(s, e) == Append(s, e)

\* function emit(eventName, data)
Emit(s, e) == IF isClosed THEN s ELSE Append(s, e)

LogEvent(kind) == [type |-> "log", kind |-> kind]
\* mutant: done counts what is left instead of what is recorded
ProgressEventRemaining(done, total, url) ==
    [type |-> "progress", done |-> total - done, total |-> total, currentUrl |-> url]

\* mutant: total leaves out the results recorded so far
ProgressEventFrontierTotal(done, total, url) ==
    [type |-> "progress", done |-> done, total |-> total - done, currentUrl |-> url]

ProgressEvent(done, total, url) ==
    [type |-> "progress", done |-> done, total |-> total, currentUrl |-> url]
ResultEvent(r) == [type |-> "result", result |-> r]
\* mutant: the summary reports the visited count as the number of links
DoneEventVisitedAsTotal(totalLinks, nVisited) ==
    [type |-> "done", totalLinks |-> nVisited, visited |-> nVisited]

DoneEvent(totalLinks, nVisited) ==
    [type |-> "done", totalLinks |-> totalLinks, visited |-> nVisited]
ErrorEvent(msg) == [type |-> "error", message |-> msg]

EventsOf(s, t) == SelectSeq(s, LAMBDA e : e.type = t)

----------------------------------------------------------------------------
(* The handler *)

NoItem == [url |-> NULL, depth |-> 0]

NoCall == [fn |-> "none", arg |-> <<>>, ret |-> <<>>, done |-> FALSE]

\* pc values at which the handler is suspended in an await
AwaitPoints == {"sleep", "fetch", "backoff", "body", "redirect", "linksleep"}

Init ==
    /\ req \in Requests
    /\ pc = "start"
    /\ isClosed = FALSE
    /\ resEnded = 0
    /\ queue = <<>>
    /\ visited = {}
    /\ results = <<>>
    /\ stream = <<>>
    /\ item = NoItem
    /\ links = <<>>
    /\ attempt = 0
    /\ lastError = ""
    /\ retryCount = 0
    /\ attemptLog = <<>>
    /\ pushed = <<>>
    /\ pageLog = <<>>
    /\ nResolve = 0
    /\ inFlight = 0
    /\ call = NoCall

\* the condition under which the seed loop enqueues a normalized seed
SeedAccepted(normalized, seen) ==
    normalized # NULL /\ normalized \notin seen /\ isAllowedUrl(normalized)

RECURSIVE SeedFrom(_, _, _)
\* for (const url of body.urls) { ... }
SeedFrom(urls, q, seen) ==
    IF urls = <<>> THEN [queue |-> q, visited |-> seen]
    ELSE LET normalized == normalizeUrl(Head(urls))
         IN IF SeedAccepted(normalized, seen)
            THEN SeedFrom(Tail(urls), Append(q, [url |-> normalized, depth |-> 0]),
                          seen \cup {normalized})
            ELSE SeedFrom(Tail(urls), q, seen)

\* the handler from res.on('close') to the head of the while loop
Seed ==
    /\ pc = "start"
    /\ LET s == SeedFrom(req.urls, <<>>, {})
       IN /\ queue' = s.queue
          /\ visited' = s.visited
          /\ pushed' = [i \in DOMAIN s.queue |-> s.queue[i].url]
    /\ stream' = Emit(stream, LogEvent("info"))
    /\ pc' = "loop"
    /\ UNCHANGED <<inFlight, call, req, isClosed, resEnded, results, item, links, attempt, lastError,
                   retryCount, attemptLog, pageLog, nResolve>>

\* mutant: the budget test off by one
BudgetLeftOffByOne(n) == n <= maxUrls

\* results.length < maxUrls
BudgetLeft(n) == n < maxUrls

\* mutant: the while condition without the isClosed test
LoopCondIgnoringClose == queue # <<>> /\ BudgetLeft(Len(results))

\* the while condition
LoopCond == queue # <<>> /\ BudgetLeft(Len(results)) /\ ~isClosed

\* mutant: queue.pop() in place of queue.shift()
ShiftFromTail(q) == [item |-> q[Len(q)], rest |-> SubSeq(q, 1, Len(q) - 1)]

\* mutant: the head is read and left in the queue
ShiftKeepingHead(q) == [item |-> Head(q), rest |-> q]

\* queue.shift()
Shift(q) == [item |-> Head(q), rest |-> Tail(q)]

\* a request is sent: fetch(...) is called
Issue(n) == n + 1

\* mutant: the request of an attempt that is given up is left running
SettleForgotten(n) == n

\* the awaited request settles: its promise resolves or rejects, or the body
\* of its response has been read
Settle(n) == n - 1

\* the call of fetchWithRetry for the page it
BeginFetch(it) ==
    /\ pc' = "fetch"
    /\ inFlight' = Issue(inFlight)
    /\ attempt' = 0
    /\ lastError' = ""
    /\ attemptLog' = <<>>
    /\ pageLog' = Append(pageLog, [url |-> it.url, depth |-> it.depth,
                                   state |-> "fetching", links |-> <<>>])

\* mutant: the progress event is emitted before the filters are applied
DequeueSkipAfterProgress ==
    /\ pc = "loop"
    /\ LoopCond
    /\ LET sh == Shift(queue)
       IN /\ ~PassesFilters(sh.item.url)
          /\ queue' = sh.rest
          /\ item' = sh.item
          /\ stream' = Emit(stream, ProgressEvent(Len(results),
                                                  Len(results) + Len(sh.rest) + 1,
                                                  sh.item.url))
    /\ UNCHANGED <<inFlight, call, req, pc, isClosed, resEnded, visited, results, links,
                   attempt, lastError, retryCount, attemptLog, pushed, pageLog, nResolve>>

\* an item rejected by the filters: continue
DequeueSkip ==
    /\ pc = "loop"
    /\ LoopCond
    /\ LET sh == Shift(queue)
       IN /\ ~PassesFilters(sh.item.url)
          /\ queue' = sh.rest
          /\ item' = sh.item
    /\ UNCHANGED <<inFlight, call, req, pc, isClosed, resEnded, visited, results, stream, links, attempt,
                   lastError, retryCount, attemptLog, pushed, pageLog, nResolve>>

\* an item that passes: progress and log events, then the sleep (when a
\* result exists) or the first fetch attempt
DequeueFetch ==
    /\ pc = "loop"
    /\ LoopCond
    /\ LET sh == Shift(queue)
       IN /\ PassesFilters(sh.item.url)
          /\ queue' = sh.rest
          /\ item' = sh.item
          /\ stream' = Emit(Emit(stream,
                                 ProgressEvent(Len(results),
                                               Len(results) + Len(sh.rest) + 1,
                                               sh.item.url)),
                            LogEvent("progress"))
          /\ IF Len(results) > 0
             THEN pc' = "sleep"
                  /\ UNCHANGED <<inFlight, attempt, lastError, attemptLog, pageLog>>
             ELSE BeginFetch(sh.item)
    /\ UNCHANGED <<call, req, isClosed, resEnded, visited, results, links, retryCount, pushed,
                   nResolve>>

\* await sleep(delayMs) is over
Sleep ==
    /\ pc = "sleep"
    /\ BeginFetch(item)
    /\ UNCHANGED <<call, req, isClosed, resEnded, queue, visited, results, stream, item, links,
                   retryCount, pushed, nResolve>>

\* mutant: every error status is retried, client errors included
RetryResponseOnClientError(status, att, max) == status >= RedirectCeil /\ att < max

\* response.status >= 500 && attempt < retries
RetryResponse(status, att, max) == status >= ServerErrorFloor /\ att < max

\* the catch branch: attempt < retries
RetryThrow(att, max) == att < max

\* mutant: the catch block drops the failure's message
ErrorResultNoMessage(it, msg) ==
    [sourceUrl |-> it.url, targetUrl |-> it.url, status |-> 0, redirectChain |-> <<>>,
     type |-> "internal", depth |-> it.depth, error |-> "", retryCount |-> -1]

\* the synthetic result of the handler's catch block (item.sourceUrl is never
\* set on a queue item, so sourceUrl is item.url); retryCount -1 stands for
\* the field left out
ErrorResult(it, msg) ==
    [sourceUrl |-> it.url, targetUrl |-> it.url, status |-> 0, redirectChain |-> <<>>,
     type |-> "internal", depth |-> it.depth, error |-> msg, retryCount |-> -1]

\* where the handler continues after its catch block
AfterCatch == "loop"

\* mutant: the catch block logs the failure without recording a result
PageFailureUnrecorded(msg) ==
    /\ results' = results
    /\ stream' = Emit(stream, LogEvent("error"))
    /\ pageLog' = [pageLog EXCEPT ![Len(pageLog)].state = "failed"]
    /\ links' = <<>>
    /\ pc' = AfterCatch

\* the handler's catch block
PageFailure(msg) ==
    /\ results' = Append(results, ErrorResult(item, msg))
    /\ stream' = Emit(Emit(stream, ResultEvent(ErrorResult(item, msg))), LogEvent("error"))
    /\ pageLog' = [pageLog EXCEPT ![Len(pageLog)].state = "failed"]
    /\ links' = <<>>
    /\ pc' = AfterCatch

\* a 5xx response while attempts remain: backoff sleep
FetchRetry ==
    /\ pc = "fetch"
    /\ \E o \in AttemptOutcomes :
        /\ o.kind = "response"
        /\ RetryResponse(o.status, attempt, retries)
        /\ attemptLog' = Append(attemptLog, o)
        /\ lastError' = "Server error"
    /\ pc' = "backoff"
    /\ inFlight' = Settle(inFlight)
    /\ UNCHANGED <<call, req, isClosed, resEnded, queue, visited, results, stream, item, links,
                   attempt, retryCount, pushed, pageLog, nResolve>>

\* any other response: return { response, retryCount: attempt }
FetchReturn ==
    /\ pc = "fetch"
    /\ \E o \in AttemptOutcomes :
        /\ o.kind = "response"
        /\ ~RetryResponse(o.status, attempt, retries)
        /\ attemptLog' = Append(attemptLog, o)
    /\ retryCount' = attempt
    /\ attempt' = 0
    /\ lastError' = ""
    /\ pc' = "body"
    /\ UNCHANGED <<inFlight, call, req, isClosed, resEnded, queue, visited, results, stream, item, links,
                   pushed, pageLog, nResolve>>

\* fetch() throws while attempts remain: backoff sleep
FetchThrowRetry ==
    /\ pc = "fetch"
    /\ \E o \in AttemptOutcomes :
        /\ o.kind = "throw"
        /\ RetryThrow(attempt, retries)
        /\ attemptLog' = Append(attemptLog, o)
        /\ lastError' = o.msg
    /\ pc' = "backoff"
    /\ inFlight' = Settle(inFlight)
    /\ UNCHANGED <<call, req, isClosed, resEnded, queue, visited, results, stream, item, links,
                   attempt, retryCount, pushed, pageLog, nResolve>>

\* fetch() throws on the last attempt: the loop ends, throw lastError, and
\* the handler's catch block runs
FetchThrowLast ==
    /\ pc = "fetch"
    /\ \E o \in AttemptOutcomes :
        /\ o.kind = "throw"
        /\ ~RetryThrow(attempt, retries)
        /\ attemptLog' = Append(attemptLog, o)
        /\ PageFailure(o.msg)
    /\ attempt' = 0
    /\ lastError' = ""
    /\ inFlight' = Settle(inFlight)
    /\ UNCHANGED <<call, req, isClosed, resEnded, queue, visited, item, retryCount, pushed,
                   nResolve>>

\* await sleep(1000 * (attempt + 1)) is over: continue with attempt++
Backoff ==
    /\ pc = "backoff"
    /\ attempt' = attempt + 1
    /\ pc' = "fetch"
    /\ inFlight' = Issue(inFlight)
    /\ UNCHANGED <<call, req, isClosed, resEnded, queue, visited, results, stream, item, links,
                   lastError, retryCount, attemptLog, pushed, pageLog, nResolve>>

\* await response.text() yields the body: extractLinks, log
ReadBody ==
    /\ pc = "body"
    /\ \E html \in Bodies :
        LET found == extractLinks(html, item.url)
        IN /\ links' = found
           /\ pageLog' = [pageLog EXCEPT ![Len(pageLog)].state = "ok",
                                         ![Len(pageLog)].links = found]
    /\ stream' = Emit(stream, LogEvent("success"))
    /\ attemptLog' = <<>>
    /\ pc' = "links"
    /\ inFlight' = Settle(inFlight)
    /\ UNCHANGED <<call, req, isClosed, resEnded, queue, visited, results, item, attempt,
                   lastError, retryCount, pushed, nResolve>>

\* await response.text() throws: the handler's catch block runs
ReadBodyThrow ==
    /\ pc = "body"
    /\ PageFailure("terminated")
    /\ attemptLog' = <<>>
    /\ retryCount' = 0
    /\ inFlight' = Settle(inFlight)
    /\ UNCHANGED <<call, req, isClosed, resEnded, queue, visited, item, attempt, lastError,
                   pushed, nResolve>>

\* the for loop over links ends, or breaks on budget or cancellation
LinksDone ==
    /\ pc = "links"
    /\ (links = <<>> \/ ~BudgetLeft(Len(results)) \/ isClosed)
    /\ links' = <<>>
    /\ retryCount' = 0
    /\ pc' = "loop"
    /\ UNCHANGED <<inFlight, call, req, isClosed, resEnded, queue, visited, results, stream, item, attempt,
                   lastError, attemptLog, pushed, pageLog, nResolve>>

\* a link rejected by the filters: continue
LinkSkip ==
    /\ pc = "links"
    /\ links # <<>> /\ BudgetLeft(Len(results)) /\ ~isClosed
    /\ ~PassesFilters(Head(links).targetUrl)
    /\ links' = Tail(links)
    /\ UNCHANGED <<inFlight, call, req, pc, isClosed, resEnded, queue, visited, results, stream, item,
                   attempt, lastError, retryCount, attemptLog, pushed, pageLog, nResolve>>

\* a link that passes: getRedirectChain is called
LinkResolve ==
    /\ pc = "links"
    /\ links # <<>> /\ BudgetLeft(Len(results)) /\ ~isClosed
    /\ PassesFilters(Head(links).targetUrl)
    /\ nResolve' = nResolve + 1
    /\ pc' = "redirect"
    /\ inFlight' = Issue(inFlight)
    /\ UNCHANGED <<call, req, isClosed, resEnded, queue, visited, results, stream, item, links,
                   attempt, lastError, retryCount, attemptLog, pushed, pageLog>>

LinkResult(it, link, info, rc) ==
    [sourceUrl |-> it.url, targetUrl |-> link.targetUrl, status |-> info.finalStatus,
     redirectChain |-> formatRedirectChain(info.chain),
     type |-> IF link.isInternal THEN "internal" ELSE "external",
     depth |-> it.depth, error |-> info.error, retryCount |-> rc]

\* mutant: the depth test off by one
DepthLeftOffByOne(depth) == depth <= req.maxDepth

\* item.depth < body.maxDepth
DepthLeft(depth) == depth < req.maxDepth

\* mutant: links are followed whether or not the request is recursive
ShouldEnqueueNonRecursive(it, link, seen) ==
    /\ link.isInternal
    /\ DepthLeft(it.depth)
    /\ link.targetUrl \notin seen
    /\ (~req.sameDomainOnly \/ Hostname(link.targetUrl) \in baseDomains)

\* mutant: external links are followed as well
ShouldEnqueueExternal(it, link, seen) ==
    /\ req.recursive
    /\ DepthLeft(it.depth)
    /\ link.targetUrl \notin seen
    /\ (~req.sameDomainOnly \/ Hostname(link.targetUrl) \in baseDomains)

\* mutant: a link already visited is pushed again
ShouldEnqueueRevisit(it, link, seen) ==
    /\ req.recursive
    /\ link.isInternal
    /\ DepthLeft(it.depth)
    /\ (~req.sameDomainOnly \/ Hostname(link.targetUrl) \in baseDomains)

\* the condition under which a link is marked visited and pushed
ShouldEnqueue(it, link, seen) ==
    /\ req.recursive
    /\ link.isInternal
    /\ DepthLeft(it.depth)
    /\ link.targetUrl \notin seen
    /\ (~req.sameDomainOnly \/ Hostname(link.targetUrl) \in baseDomains)

\* mutant: the enqueued link is not marked visited
VisitedAddForgotten(seen, url) == seen

\* visited.add(link.targetUrl)
VisitedAdd(seen, url) == seen \cup {url}

\* mutant: the item is put at the head of the queue
Unshift(q, it) == <<it>> \o q

\* queue.push(item)
Push(q, it) == Append(q, it)

\* getRedirectChain returns: the result is pushed and emitted, the link is
\* enqueued when it qualifies, then await sleep(delayMs / 2)
Resolved ==
    /\ pc = "redirect"
    /\ \E script \in RedirectScripts :
        LET link == Head(links)
            result == LinkResult(item, link, getRedirectChain(script), retryCount)
        IN /\ results' = Append(results, result)
           /\ stream' = Emit(stream, ResultEvent(result))
           /\ IF ShouldEnqueue(item, link, visited)
              THEN /\ visited' = VisitedAdd(visited, link.targetUrl)
                   /\ queue' = Push(queue, [url |-> link.targetUrl, depth |-> item.depth + 1])
                   /\ pushed' = Append(pushed, link.targetUrl)
              ELSE UNCHANGED <<visited, queue, pushed>>
    /\ pc' = "linksleep"
    /\ inFlight' = Settle(inFlight)
    /\ UNCHANGED <<call, req, isClosed, resEnded, item, links, attempt, lastError, retryCount,
                   attemptLog, pageLog, nResolve>>

\* await sleep(delayMs / 2) is over: next link
LinkSleep ==
    /\ pc = "linksleep"
    /\ links' = Tail(links)
    /\ pc' = "links"
    /\ UNCHANGED <<inFlight, call, req, isClosed, resEnded, queue, visited, results, stream, item, attempt,
                   lastError, retryCount, attemptLog, pushed, pageLog, nResolve>>

\* mutant: the done event is emitted from the finally block
FinallyEmitsDone(s) == IF isClosed THEN s ELSE Append(s, [type |-> "done"])

\* what the finally block writes to the stream before res.end(): nothing
FinallyEvents(s) == s

\* the while loop has ended: done and log events, then finally res.end()
\* mutant: a path out of the handler that misses res.end()
EndSkipped(n) == n

\* finally { res.end() }
End(n) == n + 1

Finish ==
    /\ pc = "loop"
    /\ ~LoopCond
    /\ stream' = FinallyEvents(Emit(Emit(stream, DoneEvent(Len(results), Cardinality(visited))),
                                    LogEvent("success")))
    /\ resEnded' = End(resEnded)
    /\ pc' = "ended"
    /\ UNCHANGED <<inFlight, call, req, isClosed, queue, visited, results, item, links, attempt, lastError,
                   retryCount, attemptLog, pushed, pageLog, nResolve>>

\* an exception in the outer try at the head of the loop, outside the
\* per-item try: the outer catch emits error, then finally res.end()
Fault ==
    /\ pc = "loop"
    /\ stream' = FinallyEvents(Emit(stream, ErrorEvent("Unknown error")))
    /\ resEnded' = End(resEnded)
    /\ pc' = "failed"
    /\ UNCHANGED <<inFlight, call, req, isClosed, queue, visited, results, item, links, attempt, lastError,
                   retryCount, attemptLog, pushed, pageLog, nResolve>>

\* the consumer closes the connection: res.on('close', () => { isClosed = true })
Close ==
    /\ pc \in AwaitPoints
    /\ ~isClosed
    /\ isClosed' = TRUE
    /\ UNCHANGED <<inFlight, call, req, pc, resEnded, queue, visited, results, stream, item, links, attempt,
                   lastError, retryCount, attemptLog, pushed, pageLog, nResolve>>

Next ==
    \/ Seed
    \/ DequeueSkip
    \/ DequeueFetch
    \/ Sleep
    \/ FetchRetry
    \/ FetchReturn
    \/ FetchThrowRetry
    \/ FetchThrowLast
    \/ Backoff
    \/ ReadBody
    \/ ReadBodyThrow
    \/ LinksDone
    \/ LinkSkip
    \/ LinkResolve
    \/ Resolved
    \/ LinkSleep
    \/ Finish
    \/ Fault
    \/ Close

Spec == Init /\ [][Next]_vars

\* the steps of the handler itself: synchronous code, or an await on a timer
\* or on a network call, which returns or times out
Step ==
    \/ Seed
    \/ DequeueSkip
    \/ DequeueFetch
    \/ Sleep
    \/ FetchRetry
    \/ FetchReturn
    \/ FetchThrowRetry
    \/ FetchThrowLast
    \/ Backoff
    \/ ReadBody
    \/ ReadBodyThrow
    \/ LinksDone
    \/ LinkSkip
    \/ LinkResolve
    \/ Resolved
    \/ LinkSleep
    \/ Finish
    \/ Fault

\* the recursive crawls of the largest depth drawn, which are the longest
InitLive ==
    /\ Init
    /\ req.recursive
    /\ req.maxDepth = MaxReqDepth

\* those crawls under the assumption that every await of the handler is
\* resumed
SpecLive == InitLive /\ [][Next]_vars /\ WF_vars(Step)

----------------------------------------------------------------------------
(* Crawls under a urlFilter whose length lies at the limit *)

\* "/a|/b|zzz...": n characters in all
LongFilter(n) == <<"/", "a", "|", "/", "b", "|">> \o [i \in 1..(n - 6) |-> "z"]

FilterLimitRequests ==
    {[urls |-> <<uBad, uA, uC>>, recursive |-> TRUE, maxUrls |-> MaxReqUrls, maxDepth |-> 1,
      sameDomainOnly |-> FALSE, retries |-> MaxReqRetries, urlFilter |-> LongFilter(n),
      pathInclude |-> <<>>, pathExclude |-> <<"/", "d", "/">>] :
        n \in (UrlFilterLimit - 1)..(UrlFilterLimit + 1)}

\* Init with the request drawn from FilterLimitRequests
InitFilterLimit ==
    /\ req \in FilterLimitRequests
    /\ pc = "start"
    /\ isClosed = FALSE
    /\ resEnded = 0
    /\ queue = <<>>
    /\ visited = {}
    /\ results = <<>>
    /\ stream = <<>>
    /\ item = NoItem
    /\ links = <<>>
    /\ attempt = 0
    /\ lastError = ""
    /\ retryCount = 0
    /\ attemptLog = <<>>
    /\ pushed = <<>>
    /\ pageLog = <<>>
    /\ nResolve = 0
    /\ inFlight = 0
    /\ call = NoCall

SpecFilterLimit == InitFilterLimit /\ [][Next]_vars

----------------------------------------------------------------------------
(* The older copy of the streaming handler (scrape-json.post.ts, lines
   282-449): the text of the handler above except for the definitions
   below, which it computes without clamping, length limit, path filter or
   Outbound Gate *)

\* results.length < body.maxUrls
maxUrlsOlder == req.maxUrls

\* body.settings?.retries ?? 1, for a request that states settings.retries
retriesOlder == req.retries

\* urlFilterRegex of the older copy, NULL when there is none
urlFilterRegexOlder(urlFilter) ==
    IF urlFilter # <<>> /\ RegexCompiles(urlFilter) THEN urlFilter ELSE NULL

\* the condition under which its seed loop enqueues a normalized seed
SeedAcceptedOlder(normalized, seen) == normalized # NULL /\ normalized \notin seen

\* its one filter check, applied to an item or a link target
PassesFiltersOlder(url) ==
    urlFilterRegexOlder(req.urlFilter) # NULL => RegexTest(urlFilterRegexOlder(req.urlFilter), url)

\* requests inside the ranges where the two copies are meant to agree:
\* allowed seeds (a malformed one among them), no path filter, a urlFilter
\* absent or of at most 200 characters, maxUrls from 1 to 10000, retries
\* inside the clamp range
ComparableRequests ==
    {[urls |-> <<uBad, uA, uC>>, recursive |-> TRUE, maxUrls |-> m, maxDepth |-> 1,
      sameDomainOnly |-> FALSE, retries |-> MaxReqRetries, urlFilter |-> f,
      pathInclude |-> <<>>, pathExclude |-> <<>>] :
        m \in {MaxReqUrls, MaxMaxUrls},
        f \in {<<>>, <<"/", "a", "|", "/", "b">>, LongFilter(UrlFilterLimit)}}

\* Init with the request drawn from ComparableRequests
InitComparable ==
    /\ req \in ComparableRequests
    /\ pc = "start"
    /\ isClosed = FALSE
    /\ resEnded = 0
    /\ queue = <<>>
    /\ visited = {}
    /\ results = <<>>
    /\ stream = <<>>
    /\ item = NoItem
    /\ links = <<>>
    /\ attempt = 0
    /\ lastError = ""
    /\ retryCount = 0
    /\ attemptLog = <<>>
    /\ pushed = <<>>
    /\ pageLog = <<>>
    /\ nResolve = 0
    /\ inFlight = 0
    /\ call = NoCall

SpecComparable == InitComparable /\ [][Next]_vars

----------------------------------------------------------------------------
(* The helpers applied on their own: one call per behaviour, its argument *)
(* drawn by the initial state, its result stored by the call's action     *)

\* no request is being handled
HandlerIdle ==
    /\ req = [urls |-> <<>>, recursive |-> FALSE, maxUrls |-> 0, maxDepth |-> 0,
              sameDomainOnly |-> FALSE, retries |-> 0, urlFilter |-> <<>>,
              pathInclude |-> <<>>, pathExclude |-> <<>>]
    /\ pc = "idle"
    /\ isClosed = FALSE
    /\ resEnded = 0
    /\ queue = <<>>
    /\ visited = {}
    /\ results = <<>>
    /\ stream = <<>>
    /\ item = NoItem
    /\ links = <<>>
    /\ attempt = 0
    /\ lastError = ""
    /\ retryCount = 0
    /\ attemptLog = <<>>
    /\ pushed = <<>>
    /\ pageLog = <<>>
    /\ nResolve = 0
    /\ inFlight = 0

HandlerVars == <<req, pc, isClosed, resEnded, queue, visited, results, stream, item,
                 links, attempt, lastError, retryCount, attemptLog, pushed, pageLog,
                 nResolve, inFlight>>

CallOf(fn, arg) == [fn |-> fn, arg |-> arg, ret |-> <<>>, done |-> FALSE]

\* the answer of the call's action
Return(ret) ==
    /\ call' = [call EXCEPT !.ret = ret, !.done = TRUE]
    /\ UNCHANGED HandlerVars

\* server scripts: k redirects (3xx with a Location header, the statuses
\* alternating from 301 or from 302) followed by a last hop, or nothing but
\* redirects, which HopAt repeats without end (a cycle)
RedirectRun(k, first) ==
    [i \in 1..k |-> Hop(IF i % 2 = 1 THEN first ELSE 603 - first, TRUE)]

LastHops ==
    {Hop(200, FALSE), Hop(404, FALSE), Hop(503, FALSE), Hop(304, FALSE),
     Aborted, Unreachable}

ChainScripts ==
    {RedirectRun(k, first) \o <<last>> :
        k \in 0..MaxDrawnRedirects, first \in {301, 302}, last \in LastHops}

CycleScripts == {RedirectRun(k, first) : k \in 1..3, first \in {301, 302}}

RedirectCalls == {CallOf("getRedirectChain", sc) : sc \in ChainScripts \cup CycleScripts}

ApplyGetRedirectChain ==
    /\ call.fn = "getRedirectChain"
    /\ ~call.done
    /\ Return(getRedirectChain(call.arg))

\* URL strings: an origin followed by up to MaxUrlChars characters of path,
\* query and fragment
UrlChars == {"/", "a", "?", "#"}

UrlTails ==
    {r \in UNION {[1..n -> UrlChars] : n \in 0..MaxUrlChars} :
        r = <<>> \/ r[1] \in {"/", "?", "#"}}

UrlStrings == {<<"https://example.com">> \o r : r \in UrlTails}

\* the parts of a URL string as written
RawPath(s) == SubSeq(Tail(s), 1, FirstIdx(Tail(s), {"?", "#"}) - 1)

RawFragment(s) == SubSeq(Tail(s), FirstIdx(Tail(s), {"#"}), Len(s) - 1)

\* the same URL with a slash appended to its path
WithPathSlash(s) == <<s[1]>> \o RawPath(s) \o <<"/">> \o Query(s) \o RawFragment(s)

\* the same URL with another fragment
WithFragment(s, f) == <<s[1]>> \o RawPath(s) \o Query(s) \o f

Fragments == {<<>>, <<"#">>, <<"#", "a">>}

\* a URL and the URLs written like it up to the fragment and a slash that
\* ends the path
Variants(u) == {WithFragment(w, f) : w \in {u, WithPathSlash(u)}, f \in Fragments}

NormalizeCalls ==
    UNION {{CallOf("normalizeUrl", <<u, v>>) : v \in Variants(u)} : u \in UrlStrings}

\* normalizeUrl applied to a URL and to one of its variants
ApplyNormalizeUrl ==
    /\ call.fn = "normalizeUrl"
    /\ ~call.done
    /\ Return(<<normalizeUrl(call.arg[1]), normalizeUrl(call.arg[2])>>)

\* File paths: a path string is the sequence of its segments, an absolute
\* path starting with the segment "/"
Cwd == <<"/", "app">>

IsAbsolute(path) == path # <<>> /\ path[1] = "/"

RECURSIVE NormalizeSegments(_, _, _)
\* the segments of a path with "." dropped and ".." taking back the segment
\* before it; a relative path (keepUp) keeps the ".." it cannot take back
NormalizeSegments(segs, out, keepUp) ==
    IF segs = <<>> THEN out
    ELSE LET seg == Head(segs)
         IN IF seg = "." THEN NormalizeSegments(Tail(segs), out, keepUp)
            ELSE IF seg = ".."
                 THEN IF out # <<>> /\ out[Len(out)] # ".."
                      THEN NormalizeSegments(Tail(segs), SubSeq(out, 1, Len(out) - 1), keepUp)
                      ELSE IF keepUp
                           THEN NormalizeSegments(Tail(segs), Append(out, seg), keepUp)
                           ELSE NormalizeSegments(Tail(segs), out, keepUp)
                 ELSE NormalizeSegments(Tail(segs), Append(out, seg), keepUp)

\* path.join(a, b)
join(a, b) ==
    IF IsAbsolute(a)
    THEN <<"/">> \o NormalizeSegments(Tail(a) \o b, <<>>, FALSE)
    ELSE NormalizeSegments(a \o b, <<>>, TRUE)

\* path.resolve(path): relative paths are taken from process.cwd()
resolve(path) ==
    IF IsAbsolute(path)
    THEN <<"/">> \o NormalizeSegments(Tail(path), <<>>, FALSE)
    ELSE <<"/">> \o NormalizeSegments(Tail(Cwd) \o path, <<>>, FALSE)

OUTPUT_ROOT == resolve(join(Cwd, <<"output">>))

\* the value that stands for a thrown Error
Thrown == <<>>

assertWithinOutput(path) ==
    LET resolved == resolve(path)
    IN IF resolved # OUTPUT_ROOT
          /\ ~(Len(resolved) > Len(OUTPUT_ROOT) /\ StartsWith(resolved, OUTPUT_ROOT))
       THEN Thrown
       ELSE resolved

\* where writeFile(path) puts the file
FileAt(path) == resolve(path)

\* the directories a request body can name; <<>> is the field left out
DirInputs ==
    {<<>>, <<"/", "etc">>, <<"/", "app", "output">>, <<"/", "app", "output", "run">>,
     <<"/", "app", "output2">>, <<"output", "run">>, <<"..", "x">>,
     <<"output", "..", "..", "x">>}

\* save-results: the files written for one result that carries html
saveResults(body) ==
    LET baseOutputDir == IF body.baseOutputDir # <<>> THEN body.baseOutputDir
                         ELSE join(join(Cwd, <<"output">>), <<"scraper">>)
        withCsv == body.format \in {"csv", "both"}
        withJson == body.format \in {"json", "both"}
    IN IF body.mode = "html"
       THEN {FileAt(join(join(baseOutputDir, <<"ts_html_files">>), <<"example.com_a.html">>))}
            \cup (IF withCsv THEN {FileAt(join(baseOutputDir, <<"ts_html_meta.csv">>))} ELSE {})
            \cup (IF withJson THEN {FileAt(join(baseOutputDir, <<"ts_html_meta.json">>))} ELSE {})
       ELSE (IF withJson THEN {FileAt(join(baseOutputDir, <<"ts_links.json">>))} ELSE {})
            \cup (IF withCsv THEN {FileAt(join(baseOutputDir, <<"ts_links.csv">>))} ELSE {})
            \cup {FileAt(join(baseOutputDir, <<"ts_links.txt">>))}

SaveResultsCalls ==
    {CallOf("saveResults", [baseOutputDir |-> d, mode |-> m, format |-> f]) :
        d \in DirInputs, m \in {"html", "links"}, f \in {"csv", "json", "both"}}

\* screenshot: the file written for one allowed URL
screenshot(body) ==
    LET outputDir == assertWithinOutput(
                        IF body.outputDir # <<>> THEN body.outputDir
                        ELSE resolve(join(Cwd, <<"output", "screenshots", "ts">>)))
    IN IF outputDir = Thrown THEN {}
       ELSE {FileAt(join(outputDir, <<"001_example_com." \o body.format>>))}

ScreenshotCalls ==
    {CallOf("screenshot", [outputDir |-> d, format |-> f]) :
        d \in DirInputs, f \in {"png", "pdf"}}

\* image scraper with download on: the file written for one image of one
\* allowed URL
scrapeImages(body) ==
    LET outputDir == assertWithinOutput(
                        IF body.outputDir # <<>> THEN body.outputDir
                        ELSE join(Cwd, <<"output", "images", "ts">>))
        saveDir == IF body.subfolderPerUrl THEN join(outputDir, <<"example.com">>)
                   ELSE outputDir
        filename == IF body.subfolderPerUrl THEN "1_image.jpg" ELSE "example.com_1_image.jpg"
    IN IF outputDir = Thrown THEN {}
       ELSE {FileAt(join(saveDir, <<filename>>))}

ScrapeImagesCalls ==
    {CallOf("scrapeImages", [outputDir |-> d, subfolderPerUrl |-> b]) :
        d \in DirInputs, b \in BOOLEAN}

ApplySaveResults ==
    /\ call.fn = "saveResults"
    /\ ~call.done
    /\ Return(saveResults(call.arg))

ApplyScreenshot ==
    /\ call.fn = "screenshot"
    /\ ~call.done
    /\ Return(screenshot(call.arg))

ApplyScrapeImages ==
    /\ call.fn = "scrapeImages"
    /\ ~call.done
    /\ Return(scrapeImages(call.arg))

\* bodies of up to MaxBodyPieces pieces: anchors, <loc> elements, an XML
\* declaration, a sitemap root and white space, in any order
BodyPieces == {XmlDecl, XmlDeclUpper, Space, UrlsetTag, SitemapIndexTag, Loc(uB), uD}

DrawnBodies == UNION {[1..n -> BodyPieces] : n \in 0..MaxBodyPieces}

ExtractCalls == {CallOf("extractLinks", <<html, uA>>) : html \in DrawnBodies}

ApplyExtractLinks ==
    /\ call.fn = "extractLinks"
    /\ ~call.done
    /\ Return(extractLinks(call.arg[1], call.arg[2]))

\* prefixes of the path filter: up to MaxPrefixChars characters
Prefixes == UNION {[1..n -> {"/", "a"}] : n \in 1..MaxPrefixChars}

\* pathIncludes and pathExcludes: no prefix, one prefix, or two of a few
PrefixLists ==
    {<<>>} \cup {<<p>> : p \in Prefixes}
    \cup {<<p, q>> : p, q \in {<<"/", "a">>, <<"a">>, <<"/", "a", "/">>}}

\* URLs whose path has up to MaxPrefixChars + 1 characters, two URLs with a
\* query, and a string that is no URL
FilteredUrls ==
    {<<"https://example.com", "/">> \o p :
        p \in UNION {[1..n -> {"/", "a"}] : n \in 0..MaxPrefixChars}}
    \cup {<<"https://example.com", "?", "/", "a">>,
          <<"https://example.com", "/", "a", "?", "/", "a">>, uBad}

PathFilterCalls ==
    {CallOf("matchesPathFilter", <<u, inc, ex>>) :
        u \in FilteredUrls, inc \in PrefixLists, ex \in PrefixLists}

ApplyMatchesPathFilter ==
    /\ call.fn = "matchesPathFilter"
    /\ ~call.done
    /\ Return([accepted |-> matchesPathFilter(call.arg[1], call.arg[2], call.arg[3])])

Calls ==
    RedirectCalls \cup NormalizeCalls \cup SaveResultsCalls \cup ScreenshotCalls
    \cup ScrapeImagesCalls \cup ExtractCalls \cup PathFilterCalls

InitHelpers ==
    /\ HandlerIdle
    /\ call \in Calls

NextHelpers ==
    \/ ApplyGetRedirectChain
    \/ ApplyNormalizeUrl
    \/ ApplySaveResults
    \/ ApplyScreenshot
    \/ ApplyScrapeImages
    \/ ApplyExtractLinks
    \/ ApplyMatchesPathFilter

SpecHelpers == InitHelpers /\ [][NextHelpers]_vars

----------------------------------------------------------------------------
(* Properties *)

ResultEvents == EventsOf(stream, "result")
DoneEvents == EventsOf(stream, "done")
ErrorEvents == EventsOf(stream, "error")

\* the results the stream carries, in order
Emitted == [i \in DOMAIN ResultEvents |-> ResultEvents[i].result]

NoDup(seq) == \A i, j \in DOMAIN seq : i # j => seq[i] # seq[j]

\* position of x in seq, 0 when it does not occur
Idx(seq, x) ==
    IF \E i \in DOMAIN seq : seq[i] = x THEN CHOOSE i \in DOMAIN seq : seq[i] = x ELSE 0

PageUrls == [i \in DOMAIN pageLog |-> pageLog[i].url]

FailedPages == {i \in DOMAIN pageLog : pageLog[i].state = "failed"}

\* C1 as stated: the number of result events never exceeds the maxUrls field
\* of the request.  (Violated: a request with maxUrls 0 runs with the default
\* budget of 100.)
C1_ResultsWithinRequestMaxUrls == Len(ResultEvents) <= req.maxUrls

\* C1 amended: the number of result events, and of recorded results, never
\* exceeds the effective budget min(max(maxUrls || 100, 1), 10000), which is
\* the request's maxUrls whenever that lies in 1..10000.
C1_ResultsWithinEffectiveMaxUrls ==
    /\ Len(ResultEvents) <= maxUrls
    /\ Len(results) <= maxUrls
    /\ (req.maxUrls \in MinMaxUrls..MaxMaxUrls => Len(ResultEvents) <= req.maxUrls)

\* C1 witness: the budget is used up while the frontier still holds an item
C1_Witness ==
    /\ req.maxUrls >= MinMaxUrls
    /\ Len(ResultEvents) = req.maxUrls
    /\ queue # <<>>
    /\ pc = "ended"

\* C2 as stated: no page deeper than the request's maxDepth is fetched and no
\* emitted result carries a greater depth.  (Violated: with a negative
\* maxDepth the seeds are still fetched at depth 0.)
C2_DepthWithinRequestMaxDepth ==
    /\ \A i \in DOMAIN pageLog : pageLog[i].depth <= req.maxDepth
    /\ \A i \in DOMAIN Emitted : Emitted[i].depth <= req.maxDepth

\* C2 amended: when the request's maxDepth is at least 0, no frontier item
\* deeper than maxDepth is enqueued or fetched and no result carries a
\* greater depth (seeds are fetched at depth 0 whatever maxDepth is).
C2_DepthWithinMaxDepth ==
    req.maxDepth >= 0 =>
        /\ \A i \in DOMAIN queue : queue[i].depth <= req.maxDepth
        /\ \A i \in DOMAIN pageLog : pageLog[i].depth <= req.maxDepth
        /\ \A i \in DOMAIN Emitted : Emitted[i].depth <= req.maxDepth
        /\ \A i \in DOMAIN results : results[i].depth <= req.maxDepth

\* C2 witness: a page at the depth limit reported an unvisited internal link
\* that recursion would otherwise have followed
C2_Witness ==
    /\ req.recursive /\ req.maxDepth >= 1
    /\ \E i \in DOMAIN Emitted :
        /\ Emitted[i].depth = req.maxDepth
        /\ Emitted[i].type = "internal"
        /\ Emitted[i].targetUrl \notin visited
        /\ PassesFilters(Emitted[i].targetUrl)

\* C3: within one crawl the visited set only grows, every normalized URL is
\* pushed onto the frontier at most once, and no URL is fetched as a page
\* twice.
C3_EnqueuedAtMostOnce ==
    /\ [](NoDup(pushed) /\ NoDup(PageUrls))
    /\ [](\A i \in DOMAIN pushed : pushed[i] \in visited)
    /\ [][visited \subseteq visited']_vars

\* C3 witness: a page reported an internal link to a URL already visited,
\* with recursion on and depth left, and the crawl went on to a third page
C3_Witness ==
    /\ req.recursive
    /\ Len(pageLog) >= 3
    /\ \E i \in DOMAIN results :
        /\ results[i].type = "internal"
        /\ results[i].depth < req.maxDepth
        /\ results[i].targetUrl = uA
        /\ results[i].sourceUrl = uB

\* position of a result in crawl order: the page it belongs to, then the
\* link within that page (0 for the page's failure result)
LinkTargets(i) == [k \in DOMAIN pageLog[i].links |-> pageLog[i].links[k].targetUrl]
PagePos(r) == Idx(PageUrls, r.sourceUrl)
LinkPos(r) ==
    IF r.retryCount = -1
    THEN 0
    ELSE Idx(LinkTargets(PagePos(r)), r.targetUrl)

\* C4: pages are fetched in the order their items were pushed, with nothing
\* but filtered items passed over; all results of a page come before any
\* result of a page enqueued later; within a page results follow the order
\* of extraction.  (Both orders are transitive, so the formula compares each
\* page and each result with its successor.)
C4_StrictFifo ==
    LET em == Emitted
        urls == PageUrls
        last == IF urls = <<>> THEN 0 ELSE Idx(pushed, urls[Len(urls)])
    IN /\ \A i \in DOMAIN urls : Idx(pushed, urls[i]) > 0
       /\ \A i \in 1..(Len(urls) - 1) : Idx(pushed, urls[i]) < Idx(pushed, urls[i + 1])
       /\ \A k \in 1..(last - 1) :
            pushed[k] \in {urls[i] : i \in DOMAIN urls} \/ ~PassesFilters(pushed[k])
       /\ \A i \in DOMAIN em : PagePos(em[i]) > 0
       /\ \A i \in 1..(Len(em) - 1) :
            /\ Idx(pushed, em[i].sourceUrl) <= Idx(pushed, em[i + 1].sourceUrl)
            /\ (em[i].sourceUrl = em[i + 1].sourceUrl
                    => /\ LinkPos(em[i]) > 0
                       /\ LinkPos(em[i]) < LinkPos(em[i + 1]))

\* C4 witness: two items were in the frontier together, both were fetched,
\* and the stream carries two results of the first and one of the second
C4_Witness ==
    /\ Len(pageLog) >= 2
    /\ \E i, j, k \in DOMAIN Emitted :
        /\ i < j /\ j < k
        /\ Emitted[i].sourceUrl = Emitted[j].sourceUrl
        /\ Emitted[j].sourceUrl # Emitted[k].sourceUrl

\* C5: once the consumer has closed the stream, no result event and no done
\* event is written.
C5_NothingAfterClose ==
    [][isClosed => /\ EventsOf(stream', "result") = EventsOf(stream, "result")
                   /\ EventsOf(stream', "done") = EventsOf(stream, "done")]_vars

\* C5 witness: the stream was closed mid-crawl, a result was recorded after
\* that, and the handler has run to its end
C5_Witness ==
    /\ isClosed
    /\ pc = "ended"
    /\ Len(results) > Len(ResultEvents)
    /\ Len(ResultEvents) > 0

\* C6: at most one terminal event; done at most once and only once the loop
\* has ended by an empty frontier or a used-up budget; never done and error
\* together; nothing but log events after a terminal event.
C6_OneTerminalEvent ==
    /\ Len(DoneEvents) + Len(ErrorEvents) <= 1
    /\ DoneEvents # <<>> => /\ pc = "ended"
                            /\ (queue = <<>> \/ Len(results) >= maxUrls)
    /\ \A i \in DOMAIN stream :
        stream[i].type \in {"done", "error"}
            => \A j \in (i + 1)..Len(stream) : stream[j].type = "log"

\* C6 witness: done was emitted on budget exhaustion with the frontier not empty
C6_Witness ==
    /\ DoneEvents # <<>>
    /\ queue # <<>>
    /\ Len(results) = maxUrls

\* the normalized seeds the Outbound Gate rejects
RejectedSeeds ==
    {normalizeUrl(req.urls[i]) : i \in DOMAIN req.urls} \ ({NULL} \cup {u \in
        {normalizeUrl(req.urls[i]) : i \in DOMAIN req.urls} : isAllowedUrl(u)})

\* C7 as stated: a seed rejected by isAllowedUrl appears in no emitted result,
\* neither as sourceUrl nor as targetUrl.  (Violated: the gate is applied to
\* seeds only, so a page linking to the rejected URL gets it reported.)
C7_RejectedSeedNeverReported ==
    \A i \in DOMAIN Emitted :
        /\ Emitted[i].sourceUrl \notin RejectedSeeds
        /\ Emitted[i].targetUrl \notin RejectedSeeds

DoneEmitted == DoneEvents # <<>>

\* C8 as stated: at completion the number of result events equals the number
\* of fetch attempts, read either as the pages fetched or as the pages
\* fetched plus the link targets probed, and is at most maxUrls.  (Violated:
\* a page fetched successfully has no result of its own.)
C8_ResultsEqualFetchAttempts ==
    DoneEmitted =>
        /\ Len(ResultEvents) \in {Len(pageLog), Len(pageLog) + nResolve}
        /\ Len(ResultEvents) <= maxUrls

\* C8 amended: at completion the number of result events equals the number
\* of link targets resolved plus the number of pages whose fetch failed, and
\* is at most the effective maxUrls.
C8_ResultsEqualLinksPlusFailures ==
    DoneEmitted =>
        /\ Len(ResultEvents) = nResolve + Cardinality(FailedPages)
        /\ Len(ResultEvents) <= maxUrls

\* C8 witness: a completed crawl with a failed page, a page fetched
\* successfully and resolved links
C8_Witness ==
    /\ DoneEmitted
    /\ FailedPages # {}
    /\ \E i \in DOMAIN pageLog : pageLog[i].state = "ok"
    /\ nResolve >= 2

\* C9: a page whose fetch failed has exactly one result, with status 0, a
\* non-empty error, an empty redirect chain, targetUrl the page's URL and the
\* page's depth, and no link result; that result is emitted unless the stream
\* is closed; the handler goes on with the loop, which ends only on an empty
\* frontier, a used-up budget or cancellation.
C9_PageFailureRecordedOnce ==
    /\ \A p \in FailedPages :
        LET mine == {i \in DOMAIN results : results[i].sourceUrl = pageLog[p].url}
        IN /\ Cardinality(mine) = 1
           /\ \A i \in mine :
                /\ results[i].status = 0
                /\ results[i].error # ""
                /\ results[i].redirectChain = <<>>
                /\ results[i].targetUrl = pageLog[p].url
                /\ results[i].depth = pageLog[p].depth
                /\ (~isClosed => Emitted[i] = results[i])
    /\ (pc = "ended" => (queue = <<>> \/ Len(results) >= maxUrls \/ isClosed))

\* C9 witness: a page failed and a page dequeued after it was fetched and
\* yielded a result
C9_Witness ==
    \E p \in FailedPages :
        /\ p < Len(pageLog)
        /\ \E i \in DOMAIN Emitted : Emitted[i].sourceUrl = pageLog[Len(pageLog)].url

\* a retry trigger: a transport failure or a 5xx response
RetryTrigger(o) == o.kind = "throw" \/ o.status >= ServerErrorFloor

\* C10: fetchWithRetry makes at most retries+1 attempts; every attempt that
\* was followed by another was a 5xx response or a failure; a response below
\* 500 ends the call at once and is returned with retryCount the number of
\* earlier attempts.
C10_RetryOnlyOnServerErrorOrFailure ==
    /\ Len(attemptLog) <= retries + 1
    /\ pc \in {"fetch", "backoff"} => Len(attemptLog) <= retries
    /\ \A i \in DOMAIN attemptLog : i < Len(attemptLog) => RetryTrigger(attemptLog[i])
    /\ \A i \in DOMAIN attemptLog :
        ~RetryTrigger(attemptLog[i]) => (i = Len(attemptLog) /\ pc = "body")
    /\ pc = "body" => /\ attemptLog # <<>>
                      /\ attemptLog[Len(attemptLog)].kind = "response"
                      /\ retryCount = Len(attemptLog) - 1

\* C10 witness: a 4xx response on the attempt after a retry is returned
C10_Witness ==
    /\ pc = "body"
    /\ retryCount >= 1
    /\ attemptLog[Len(attemptLog)].status = 404

\* the call has used all of its retries+1 attempts and each ended in a
\* retry trigger
Exhausted ==
    /\ Len(attemptLog) = retries + 1
    /\ \A i \in DOMAIN attemptLog : RetryTrigger(attemptLog[i])

\* the failure an attempt stands for: the thrown error's message, or the
\* server error the retry branch would have recorded
FailureOf(o) == IF o.kind = "throw" THEN o.msg ELSE "Server error"

\* C11: when every one of the retries+1 attempts ended in a retry trigger,
\* fetchWithRetry does not return a value: the caller's catch block runs and
\* holds the failure of the last attempt.
C11_ExhaustionSurfacesLastFailure ==
    Exhausted =>
        /\ pc # "body"
        /\ results # <<>>
        /\ results[Len(results)].status = 0
        /\ results[Len(results)].error = FailureOf(attemptLog[Len(attemptLog)])

\* a hop that sends the resolver on: a 3xx response with a Location header
Redirecting(hop) ==
    /\ hop.kind = "response"
    /\ hop.status \in RedirectFloor..(RedirectCeil - 1)
    /\ hop.location

\* the number of redirects a script starts with
LeadingRedirects(script) ==
    Cardinality({i \in DOMAIN script : \A j \in 1..i : Redirecting(script[j])})

\* the script answers at least n requests in a row with a redirect: its
\* first n hops are redirects, or all of its hops are and it repeats
RunsAtLeast(script, n) ==
    \/ LeadingRedirects(script) = Len(script)
    \/ LeadingRedirects(script) >= n

Resolving == call.fn = "getRedirectChain" /\ call.done

\* a finished call on k redirects followed by a response that is no redirect
ChainOf(k) ==
    /\ Resolving
    /\ LeadingRedirects(call.arg) = k
    /\ k < Len(call.arg)
    /\ call.arg[k + 1].kind = "response"

ChainResolved(k) ==
    /\ Len(call.ret.chain) = k + 1
    /\ call.ret.finalStatus = call.arg[k + 1].status
    /\ call.ret.error = ""

\* C12 as stated: for every k from 0 to 10, k redirects followed by a
\* non-redirect response with status s give a chain of k+1 steps,
\* finalStatus s and no error; "Too many redirects" is reported only for
\* more than 10 redirects.
C12_ChainUpToTenRedirects ==
    /\ \A k \in 0..MaxRedirects : ChainOf(k) => ChainResolved(k)
    /\ (Resolving /\ call.ret.error = "Too many redirects")
          => RunsAtLeast(call.arg, MaxRedirects + 1)

\* C12 amended: the same for every k from 0 to 9; "Too many redirects" is
\* reported only when the first 10 responses were all redirects, and then
\* the response of an 11th request is never asked for.
C12_ChainUpToNineRedirects ==
    /\ \A k \in 0..(MaxRedirects - 1) : ChainOf(k) => ChainResolved(k)
    /\ (Resolving /\ call.ret.error = "Too many redirects")
          => /\ RunsAtLeast(call.arg, MaxRedirects)
             /\ Len(call.ret.chain) = MaxRedirects

\* C12 witness: nine redirects and then a 404
C12_Witness ==
    /\ ChainOf(9)
    /\ call.ret.finalStatus = 404
    /\ Len(call.ret.chain) = 10

\* a finished call on a script of 11 or more redirects in a row, a cycle
\* included
LongRedirectRun ==
    /\ Resolving
    /\ RunsAtLeast(call.arg, MaxRedirects + 1)

\* C13: 11 or more consecutive redirects, a cycle included, end the call
\* with finalStatus 0, error "Too many redirects" and a chain of exactly 10
\* steps, the first 10 hops in order.
C13_TooManyRedirects ==
    LongRedirectRun =>
        /\ call.ret.finalStatus = 0
        /\ call.ret.error = "Too many redirects"
        /\ Len(call.ret.chain) = MaxRedirects
        /\ \A i \in 1..MaxRedirects :
            call.ret.chain[i] = RedirectStep(i, HopAt(call.arg, i).status)

\* C13 witness: a cycle of two URLs redirecting to each other
C13_Witness ==
    /\ LongRedirectRun
    /\ Len(call.arg) = 2
    /\ call.ret.error = "Too many redirects"
    /\ formatRedirectChain(call.ret.chain) = [i \in 1..10 |-> IF i % 2 = 1 THEN 301 ELSE 302]

Normalized == call.fn = "normalizeUrl" /\ call.done

\* C14: normalizeUrl is idempotent: normalizing a URL it returned returns
\* that URL again.
C14_NormalizeIdempotent ==
    (Normalized /\ call.ret[1] # NULL) => normalizeUrl(call.ret[1]) = call.ret[1]

\* two paths that are equal up to one slash at the end
SameUpToTrailingSlash(p, q) == p = q \/ p = q \o <<"/">> \/ q = p \o <<"/">>

\* two valid URLs that differ only in the fragment and/or a trailing slash
\* on a path that is not the root
DifferOnlyInFragmentOrSlash(u, v) ==
    /\ CanParse(u) /\ CanParse(v)
    /\ u[1] = v[1]
    /\ Query(u) = Query(v)
    /\ SameUpToTrailingSlash(Pathname(u), Pathname(v))
    /\ Pathname(u) # <<"/">> /\ Pathname(v) # <<"/">>

\* C15: two valid URLs that differ only in fragment and/or trailing slash on
\* the path (root excepted) are normalized to the same string.
C15_VariantsNormalizeEqual ==
    (Normalized /\ DifferOnlyInFragmentOrSlash(call.arg[1], call.arg[2]))
        => call.ret[1] = call.ret[2]

\* the URLs a crawl of the model can meet
KnownUrls == {uA, uB, uC, uD, uL}

\* C16: a urlFilter of at most 200 characters is compiled and applied, so
\* that every fetched page and every result matches it; a urlFilter of 201
\* or more characters is ignored: no URL is held back by it and the stream
\* carries no error event (short of a fault outside the filter).
C16_UrlFilterLengthLimit ==
    LET f == req.urlFilter
    IN /\ (f # <<>> /\ Len(f) <= UrlFilterLimit /\ RegexCompiles(f)) =>
            /\ urlFilterRegex(f) = f
            /\ \A i \in DOMAIN pageLog : RegexTest(f, pageLog[i].url)
            /\ \A i \in DOMAIN results : RegexTest(f, results[i].targetUrl)
       /\ Len(f) > UrlFilterLimit =>
            /\ urlFilterRegex(f) = NULL
            /\ \A u \in KnownUrls :
                PassesFilters(u) =
                    matchesPathFilter(u, PathList(req.pathInclude), PathList(req.pathExclude))
            /\ ErrorEvents # <<>> => pc = "failed"

\* C16 witness: under a filter of 201 characters a crawl completes without
\* an error event and reports a target that the pattern does not match
C16_Witness ==
    /\ Len(req.urlFilter) = UrlFilterLimit + 1
    /\ DoneEmitted
    /\ ErrorEvents = <<>>
    /\ \E i \in DOMAIN results :
        /\ results[i].targetUrl = uL
        /\ ~RegexTest(req.urlFilter, uL)

\* the frontier as the seed loop leaves it
SeedUrls ==
    LET q == SeedFrom(req.urls, <<>>, {}).queue
    IN [i \in DOMAIN q |-> q[i].url]

\* a crawl that ran to completion over one page, fetched without failure,
\* whose links are one internal and one external link that pass the filters
OnePageTwoLinks ==
    /\ DoneEmitted
    /\ maxUrls >= 2
    /\ Len(pageLog) = 1
    /\ pageLog[1].state = "ok"
    /\ Len(pageLog[1].links) = 2
    /\ \E k \in 1..2 : pageLog[1].links[k].isInternal
    /\ \E k \in 1..2 : ~pageLog[1].links[k].isInternal
    /\ \A k \in 1..2 : PassesFilters(pageLog[1].links[k].targetUrl)

\* C17: with recursive = false nothing is pushed after seeding: only seeds
\* are fetched, every result has depth 0, and a seed page with one internal
\* and one external link yields exactly two results, one per link.
C17_NonRecursiveStaysAtSeeds ==
    ~req.recursive =>
        /\ pc # "start" => pushed = SeedUrls
        /\ \A i \in DOMAIN pageLog :
            pageLog[i].depth = 0 /\ \E k \in DOMAIN SeedUrls : SeedUrls[k] = pageLog[i].url
        /\ \A i \in DOMAIN results : results[i].depth = 0
        /\ OnePageTwoLinks =>
            /\ Len(results) = 2
            /\ \A k \in 1..2 :
                /\ results[k].targetUrl = pageLog[1].links[k].targetUrl
                /\ results[k].sourceUrl = pageLog[1].url
                /\ results[k].type = IF pageLog[1].links[k].isInternal
                                     THEN "internal" ELSE "external"

\* C17 witness: a non-recursive crawl of one seed whose page links to an
\* internal and an external URL has completed, the frontier empty
C17_Witness ==
    /\ ~req.recursive
    /\ req.maxDepth >= 1
    /\ OnePageTwoLinks
    /\ queue = <<>>
    /\ Len(results) = 2

\* a result recorded for a link, not for a failed page
IsLinkResult(r) == r.retryCount # -1

\* the result reports an internal link found on a page below maxDepth
Followable(r) == IsLinkResult(r) /\ r.type = "internal" /\ r.depth < req.maxDepth

\* the first result that reports url as a followable link
FirstFound(url) ==
    CHOOSE i \in DOMAIN results :
        /\ Followable(results[i]) /\ results[i].targetUrl = url
        /\ \A j \in 1..(i - 1) : ~(Followable(results[j]) /\ results[j].targetUrl = url)

\* the step that records the result of the link being resolved
RecordsLink == pc = "redirect" /\ pc' = "linksleep"

\* C18: with recursive = true an internal link found on a page of depth
\* below maxDepth, if not yet visited, is pushed at depth+1 when its result
\* is recorded and is fetched at that depth once the frontier is worked
\* off; a link classified external gets its result, but recording it never
\* changes the frontier or the visited set.
C18_InternalFollowedExternalNot ==
    /\ [](req.recursive =>
            /\ \A i \in DOMAIN results :
                Followable(results[i]) =>
                    /\ results[i].targetUrl \in visited
                    /\ \E k \in DOMAIN pushed : pushed[k] = results[i].targetUrl
            /\ \A i \in DOMAIN pageLog :
                pageLog[i].depth > 0 =>
                    /\ \E k \in DOMAIN results :
                        Followable(results[k]) /\ results[k].targetUrl = pageLog[i].url
                    /\ pageLog[i].depth = results[FirstFound(pageLog[i].url)].depth + 1
            /\ (DoneEmitted /\ queue = <<>>) =>
                \A i \in DOMAIN results :
                    (Followable(results[i]) /\ PassesFilters(results[i].targetUrl))
                        => \E k \in DOMAIN pageLog : pageLog[k].url = results[i].targetUrl)
    /\ [][(RecordsLink /\ req.recursive /\ Head(links).isInternal
            /\ item.depth < req.maxDepth /\ Head(links).targetUrl \notin visited)
           => /\ queue' = Append(queue, [url |-> Head(links).targetUrl,
                                          depth |-> item.depth + 1])
              /\ results'[Len(results')].type = "internal"]_vars
    /\ [][(RecordsLink /\ ~Head(links).isInternal)
           => /\ queue' = queue
              /\ visited' = visited
              /\ Len(results') = Len(results) + 1
              /\ results'[Len(results')].type = "external"
              /\ results'[Len(results')].targetUrl = Head(links).targetUrl]_vars

\* C18 witness: a recursive crawl has fetched a page at depth 1 that a page
\* of depth 0 linked to, and has reported an external link whose target
\* was never pushed
C18_Witness ==
    /\ req.recursive
    /\ \E i \in DOMAIN pageLog :
        /\ pageLog[i].depth = 1
        /\ results[FirstFound(pageLog[i].url)].depth = 0
    /\ \E i \in DOMAIN results :
        /\ results[i].type = "external"
        /\ \A k \in DOMAIN pushed : pushed[k] # results[i].targetUrl

ProgressEvents == EventsOf(stream, "progress")

\* C19: across the progress events of one stream the done field never
\* decreases.
C19_ProgressDoneMonotonic ==
    LET pe == ProgressEvents
    IN \A i \in 1..(Len(pe) - 1) : pe[i].done <= pe[i + 1].done

\* C19 witness: two successive progress events, the second with a larger
\* done
C19_Witness ==
    LET pe == ProgressEvents
    IN \E i \in 1..(Len(pe) - 1) : pe[i].done < pe[i + 1].done

\* between the progress event of an item and the end of its fetch neither
\* the frontier nor the results change: the last progress event is the one
\* of the item in hand
Reporting == pc \in {"sleep", "fetch", "backoff", "body"}

LastProgress == ProgressEvents[Len(ProgressEvents)]

\* C20 as stated: total equals the number of items in the frontier plus
\* one, the frontier read either without the item just taken from it
\* (queue.length at the time of the emit) or with it.
C20_TotalIsFrontierPlusOne ==
    Reporting =>
        \/ LastProgress.total = Len(queue) + 1
        \/ LastProgress.total = (Len(queue) + 1) + 1

\* C20 amended: total equals the number of results recorded so far (the
\* done field) plus the number of items left in the frontier plus one.
C20_TotalIsDonePlusFrontierPlusOne ==
    /\ Reporting =>
        /\ LastProgress.currentUrl = item.url
        /\ LastProgress.done = Len(results)
        /\ LastProgress.total = Len(results) + Len(queue) + 1
    /\ \A i \in DOMAIN ProgressEvents :
        ProgressEvents[i].total >= ProgressEvents[i].done + 1

\* C20 witness: a progress event emitted with two results recorded and an
\* item left in the frontier
C20_Witness ==
    /\ Reporting
    /\ Len(queue) >= 1
    /\ LastProgress.done >= 2
    /\ LastProgress.total = LastProgress.done + Len(queue) + 1

\* C21: within one crawl at most one network request, page fetch attempt or
\* redirect HEAD request, is in flight at any instant: a request is only
\* issued once the one before it has settled, and the handler awaits it.
C21_AtMostOneRequestInFlight ==
    /\ inFlight \in {0, 1}
    /\ inFlight = 1 <=> pc \in {"fetch", "body", "redirect"}

\* C21 witness: a HEAD request of a redirect resolution is in flight after
\* a page fetch that needed a retry
C21_Witness ==
    /\ inFlight = 1
    /\ pc = "redirect"
    /\ retryCount >= 1

\* the path lies inside the output directory
WithinOutput(path) == Len(path) > Len(OUTPUT_ROOT) /\ StartsWith(path, OUTPUT_ROOT)

\* C22: every file written by the save-results, screenshot and image-scraper
\* handlers lies inside the output directory, whatever directory the
\* request body names.
C22_FilesWithinOutput ==
    (call.fn \in {"saveResults", "screenshot", "scrapeImages"} /\ call.done)
        => \A f \in call.ret : WithinOutput(f)

\* the five conditions of the claim, for the link whose result is recorded
EnqueueConditions ==
    /\ req.recursive
    /\ Head(links).isInternal
    /\ item.depth < req.maxDepth
    /\ Head(links).targetUrl \notin visited
    /\ (~req.sameDomainOnly \/ Hostname(Head(links).targetUrl) \in baseDomains)

\* the link being recorded is marked visited and appended to the tail of
\* the frontier with depth item.depth + 1
LinkPushed ==
    /\ queue' = Append(queue, [url |-> Head(links).targetUrl, depth |-> item.depth + 1])
    /\ visited' = visited \cup {Head(links).targetUrl}

\* C23: while a page is processed a discovered link is marked visited and
\* appended to the frontier tail with depth item.depth+1 if and only if
\* recursion is on, the link is internal, item.depth < maxDepth, the link is
\* not yet visited and sameDomainOnly is off or the link's host is a base
\* domain; the push comes with the link's result, which is recorded and
\* handed to emit in the same step, and no other step of the loop adds to
\* the frontier or the visited set.
C23_EnqueueIffConditions ==
    /\ [][RecordsLink =>
            /\ EnqueueConditions => LinkPushed
            /\ ~EnqueueConditions => (queue' = queue /\ visited' = visited)
            /\ results' = Append(results, results'[Len(results')])
            /\ results'[Len(results')].targetUrl = Head(links).targetUrl
            /\ ~isClosed => stream' = Append(stream, ResultEvent(results'[Len(results')]))]_vars
    /\ [][(pc # "start" /\ ~RecordsLink) =>
            /\ visited' = visited
            /\ \A i \in DOMAIN queue' : \E k \in DOMAIN queue : queue[k] = queue'[i]]_vars
    /\ [](\A i \in DOMAIN pushed :
            i > Len(SeedUrls) =>
                \E k \in DOMAIN results :
                    IsLinkResult(results[k]) /\ results[k].targetUrl = pushed[i])

\* C23 witness: a link was pushed at depth 1 with its result on the stream,
\* and a later internal link to a URL already visited was reported without
\* a push
C23_Witness ==
    /\ req.recursive
    /\ Len(pushed) = Len(SeedUrls) + 1
    /\ \E k \in DOMAIN ResultEvents :
        /\ ResultEvents[k].result.targetUrl = pushed[Len(pushed)]
        /\ \E j \in (k + 1)..Len(ResultEvents) :
            /\ ResultEvents[j].result.type = "internal"
            /\ ResultEvents[j].result.depth < req.maxDepth
            /\ IsLinkResult(ResultEvents[j].result)

\* the step starts the fetch of a page
StartsPageFetch == Len(pageLog') = Len(pageLog) + 1

\* C24: every page fetch of a crawl other than the first starts out of the
\* rate-limit sleep: no page fetch after the first starts without that
\* sleep before it.
C24_SleepBeforeEveryLaterFetch ==
    [][(StartsPageFetch /\ Len(pageLog) >= 1) => pc = "sleep"]_vars

\* the step takes the head of the frontier, an item the filters reject
DequeuesRejected ==
    /\ queue # <<>>
    /\ queue' = Tail(queue)
    /\ ~PassesFilters(Head(queue).url)

\* C25: dequeuing an item whose own URL fails the regex filter or the path
\* filter issues no network request, emits no event and leaves the result
\* list, the visited set and the rest of the frontier unchanged: the budget,
\* which counts results, is not touched.
C25_RejectedItemLeavesNoTrace ==
    [][DequeuesRejected =>
        /\ inFlight' = inFlight
        /\ nResolve' = nResolve
        /\ pageLog' = pageLog
        /\ stream' = stream
        /\ results' = results
        /\ visited' = visited
        /\ pc' = "loop"]_vars

\* C25 witness: an item has just been discarded by the filters, with items
\* left in the frontier and results already recorded
C25_Witness ==
    /\ pc = "loop"
    /\ item # NoItem
    /\ ~PassesFilters(item.url)
    /\ queue # <<>>
    /\ results # <<>>

\* C26: once the consumer has closed the stream no redirect resolution is
\* started any more, and at most one further page fetch starts before the
\* loop exits: a page fetch can then only start out of the rate-limit sleep
\* the handler was in when the stream closed, and that sleep is not entered
\* again.  Requests in flight complete, their results are recorded, and
\* nothing is written to the stream.
C26_NoNewWorkAfterClose ==
    /\ [][isClosed => nResolve' = nResolve]_vars
    /\ [][(isClosed /\ StartsPageFetch) => pc = "sleep"]_vars
    /\ [][(isClosed /\ pc' = "sleep") => pc = "sleep"]_vars
    /\ [][isClosed => stream' = stream]_vars

\* C26 witness: the stream is closed, the page whose fetch was under way
\* has been read and has links that the budget would still allow to
\* resolve, and an item is left in the frontier
C26_Witness ==
    /\ isClosed
    /\ pc = "links"
    /\ links # <<>>
    /\ PassesFilters(Head(links).targetUrl)
    /\ BudgetLeft(Len(results))
    /\ queue # <<>>

EverPushed == {pushed[k] : k \in DOMAIN pushed}

\* C28: a done event carries as totalLinks the number of result events
\* emitted before it on the stream, and as visited the number of distinct
\* normalized URLs ever placed on the frontier, accepted seeds plus
\* enqueued links.
C28_DoneSummaryCounts ==
    \A i \in DOMAIN stream :
        stream[i].type = "done" =>
            /\ stream[i].totalLinks = Len(EventsOf(SubSeq(stream, 1, i - 1), "result"))
            /\ stream[i].visited = Cardinality(EverPushed)
            /\ stream[i].visited = Len(SeedUrls) + (Len(pushed) - Len(SeedUrls))

\* C28 witness: a done event that reports two results and more URLs
\* placed on the frontier than pages fetched
C28_Witness ==
    /\ DoneEmitted
    /\ DoneEvents[1].totalLinks = 2
    /\ DoneEvents[1].visited > Len(pageLog)
    /\ Len(pushed) > Len(SeedUrls)

\* a finished call whose first k hops were redirects and whose next request
\* failed in transport or timed out
FailsAt(k) ==
    /\ Resolving
    /\ LeadingRedirects(call.arg) = k
    /\ k < Len(call.arg)
    /\ call.arg[k + 1].kind = "throw"

\* C29: a transport failure or timeout at any hop of the resolution (the
\* 1st to the 10th request) ends it there with finalStatus 0, the failure's
\* message as error ("Timeout" for an aborted request) and a chain of
\* exactly the hops answered before the failing one, in order.
C29_FailureEndsResolution ==
    \A k \in 0..(MaxRedirects - 1) :
        FailsAt(k) =>
            /\ call.ret.finalStatus = 0
            /\ call.ret.finalUrl = k + 1
            /\ call.ret.error = (IF call.arg[k + 1].name = "AbortError"
                                 THEN "Timeout"
                                 ELSE call.arg[k + 1].msg)
            /\ Len(call.ret.chain) = k
            /\ \A i \in 1..k :
                call.ret.chain[i] = RedirectStep(i, call.arg[i].status)

\* C29 witness: three redirects answered, the fourth request aborted
C29_Witness ==
    /\ FailsAt(3)
    /\ call.arg[4].name = "AbortError"
    /\ call.ret.error = "Timeout"
    /\ formatRedirectChain(call.ret.chain) = <<301, 302, 301>>

\* C30: normalizeUrl never alters the query string: for every valid URL the
\* query of the normalized result is, character for character, the query of
\* the parsed input.
C30_QueryUnaltered ==
    (Normalized /\ CanParse(call.arg[1])) =>
        /\ call.ret[1] # NULL
        /\ Query(call.ret[1]) = Query(call.arg[1])

Extracted == call.fn = "extractLinks" /\ call.done

\* the body begins as an XML document: its first piece that is not white
\* space is an XML declaration
BeginsAsXml(html) ==
    \E i \in DOMAIN html :
        /\ html[i] \in {XmlDecl, XmlDeclUpper}
        /\ \A j \in 1..(i - 1) : html[j] = Space

HasSitemapRoot(html) ==
    \E i \in DOMAIN html : html[i] \in {UrlsetTag, SitemapIndexTag}

\* C31: extractLinks takes its targets from the <loc> elements exactly when
\* the body begins as an XML document and contains a urlset or sitemapindex
\* root; every other body is parsed as HTML and the targets are those of its
\* anchors.
C31_SitemapModeIffXmlWithRoot ==
    Extracted =>
        call.ret = IF BeginsAsXml(call.arg[1]) /\ HasSitemapRoot(call.arg[1])
                   THEN extractLinksFromSitemap(call.arg[1], call.arg[2])
                   ELSE ExtractFrom(SelectSeq(call.arg[1], IsAnchor), call.arg[2], {})

\* a seed that new URL() rejects
MalformedSeeds == {req.urls[i] : i \in {j \in DOMAIN req.urls : ~CanParse(req.urls[j])}}

\* the seeds that parse and pass the Outbound Gate, normalized
WellFormedSeeds ==
    {normalizeUrl(req.urls[i]) :
        i \in {j \in DOMAIN req.urls :
                 CanParse(req.urls[j]) /\ isAllowedUrl(normalizeUrl(req.urls[j]))}}

\* a urlFilter that new RegExp() rejects: an unterminated group
InvalidRegex == \E i \in DOMAIN req.urlFilter : req.urlFilter[i] = "("

PathFilterAccepts(url) ==
    matchesPathFilter(url, PathList(req.pathInclude), PathList(req.pathExclude))

\* C32: a malformed seed or an invalid regex filter neither aborts the crawl
\* nor produces an error event.  The seed step always reaches the loop, with
\* no error event and the stream not ended, its frontier holding exactly the
\* well-formed seeds that pass the gate, once each, at depth 0; a malformed
\* seed is never enqueued, fetched or named in a result; under an invalid
\* regex an item or a link is skipped only when the path filter rejects it.
C32_BadInputDegradesGracefully ==
    /\ [][pc = "start" =>
            /\ pc' = "loop"
            /\ resEnded' = 0
            /\ EventsOf(stream', "error") = <<>>
            /\ {queue'[k].url : k \in DOMAIN queue'} = WellFormedSeeds
            /\ Len(queue') = Cardinality(WellFormedSeeds)
            /\ \A k \in DOMAIN queue' : queue'[k].depth = 0]_vars
    /\ [](\A u \in MalformedSeeds :
            /\ \A k \in DOMAIN pushed : pushed[k] # u
            /\ \A k \in DOMAIN pageLog : pageLog[k].url # u
            /\ \A k \in DOMAIN results :
                results[k].targetUrl # u /\ results[k].sourceUrl # u)
    /\ [][(InvalidRegex /\ pc = "loop" /\ queue # <<>> /\ queue' = Tail(queue)) =>
            (pc' = "loop" <=> ~PathFilterAccepts(Head(queue).url))]_vars
    /\ [][(InvalidRegex /\ pc = "links" /\ links # <<>> /\ links' = Tail(links)
                /\ pc' = "links") => ~PathFilterAccepts(Head(links).targetUrl)]_vars
    /\ [][(InvalidRegex /\ pc = "links" /\ pc' = "loop" /\ links # <<>>) =>
            (~BudgetLeft(Len(results)) \/ isClosed)]_vars

\* C32 witness: a crawl whose first seed is malformed and whose regex does
\* not compile has fetched both of its other seeds, reported results and
\* completed without an error event
C32_Witness ==
    /\ req.urls = <<uBad, uA, uC>>
    /\ InvalidRegex
    /\ DoneEmitted
    /\ ErrorEvents = <<>>
    /\ Len(pageLog) >= 2
    /\ pageLog[1].url = uA /\ pageLog[2].url = uC
    /\ results # <<>>

\* iterations of the dequeue loop so far: the items taken off the frontier
Iterations == Len(pushed) - Len(queue)

\* C33: every crawl terminates when every await is resumed.  An item is
\* pushed onto the frontier, after the seeds, only in a step that also adds
\* a result, so the items ever enqueued number at most the accepted seeds
\* plus the results, and the dequeue loop runs at most (accepted seeds +
\* effective maxUrls) iterations, each fetching at most one page, before the
\* stream is ended.
C33_CrawlTerminates ==
    /\ [][(pc # "start" /\ pushed' # pushed) =>
            /\ Len(pushed') = Len(pushed) + 1
            /\ Len(results') = Len(results) + 1]_vars
    /\ [](Len(pushed) <= Len(SeedUrls) + Len(results))
    /\ [](Iterations <= Len(SeedUrls) + maxUrls)
    /\ [](Len(pageLog) <= Iterations)
    /\ <>(resEnded = 1)

\* C33 witness: a crawl has ended after more iterations than it had seeds,
\* with every item it enqueued taken off the frontier
C33_Witness ==
    /\ resEnded = 1
    /\ queue = <<>>
    /\ Iterations > Len(SeedUrls)
    /\ Iterations = Len(pushed)
    /\ Len(results) < maxUrls

\* the hostnames of the seeds that passed the Outbound Gate
AcceptedSeedHosts == {Hostname(u) : u \in WellFormedSeeds}

\* C34: in every reachable state of a crawl the hostname of every frontier
\* item, of every URL ever enqueued and of every page fetched is the
\* hostname of some seed that passed the Outbound Gate.
C34_FrontierOnAcceptedSeedHosts ==
    LET hosts == AcceptedSeedHosts
    IN /\ \A k \in DOMAIN queue : Hostname(queue[k].url) \in hosts
       /\ \A k \in DOMAIN pushed : Hostname(pushed[k]) \in hosts
       /\ \A k \in DOMAIN pageLog : Hostname(pageLog[k].url) \in hosts

\* C34 witness: a crawl one of whose seeds the gate rejected has reported a
\* link to that seed's host and holds a link of an accepted host in its
\* frontier
C34_Witness ==
    /\ \E i \in DOMAIN req.urls :
        CanParse(req.urls[i]) /\ Hostname(req.urls[i]) \notin AcceptedSeedHosts
    /\ \E k \in DOMAIN results : Hostname(results[k].targetUrl) \notin AcceptedSeedHosts
    /\ \E k \in DOMAIN queue : queue[k].depth >= 1
    /\ req.sameDomainOnly

\* the conditions of the enqueue other than the sameDomainOnly check
OtherEnqueueConditions ==
    /\ req.recursive
    /\ Head(links).isInternal
    /\ item.depth < req.maxDepth
    /\ Head(links).targetUrl \notin visited

\* C35: two requests that differ only in sameDomainOnly emit the same
\* events against the same web.  sameDomainOnly is read at the enqueue of a
\* link and nowhere else, and there it decides nothing: whatever its value,
\* a recorded link is enqueued exactly when the other conditions hold, so
\* every step of the one crawl is a step of the other.
C35_SameDomainOnlyDecidesNothing ==
    [][RecordsLink =>
        /\ OtherEnqueueConditions => LinkPushed
        /\ ~OtherEnqueueConditions => (queue' = queue /\ visited' = visited)]_vars

\* C35 witness: under sameDomainOnly, with two base domains, a link to a
\* third host has been reported as external and an internal link has just
\* been enqueued
C35_Witness ==
    /\ req.sameDomainOnly
    /\ Cardinality(baseDomains) = 2
    /\ pc = "linksleep"
    /\ pushed # <<>>
    /\ pushed[Len(pushed)] = results[Len(results)].targetUrl
    /\ queue # <<>>
    /\ queue[Len(queue)].depth = 1
    /\ \E k \in DOMAIN results : Hostname(results[k].targetUrl) \notin baseDomains

\* C36: at every point of a crawl the depths of the frontier items do not
\* decrease from head to tail and every queued item has depth d or d + 1, d
\* being the depth of the item taken last; pages are therefore fetched in
\* non-decreasing order of depth.
C36_FrontierDepthsOrdered ==
    /\ \A k \in 1..(Len(queue) - 1) : queue[k].depth <= queue[k + 1].depth
    /\ \A k \in DOMAIN queue : queue[k].depth \in {item.depth, item.depth + 1}
    /\ \A k \in 1..(Len(pageLog) - 1) : pageLog[k].depth <= pageLog[k + 1].depth

\* C36 witness: two seeds were fetched, then a page of depth 1, then one of
\* depth 2, which emptied the frontier
C36_Witness ==
    /\ Len(pageLog) = 4
    /\ queue = <<>>
    /\ [k \in 1..4 |-> pageLog[k].depth] = <<0, 0, 1, 2>>

\* the regex filter is active: given, at most 200 characters long and a
\* pattern that compiles
RegexActive ==
    req.urlFilter # <<>> /\ Len(req.urlFilter) <= UrlFilterLimit /\ ~InvalidRegex

\* url satisfies the active regex filter and the path filter
SatisfiesFilters(url) ==
    /\ RegexActive => RegexTest(req.urlFilter, url)
    /\ PathFilterAccepts(url)

\* C37: the targetUrl of every result, link result or page-failure result,
\* satisfies the active regex filter and the path include/exclude filter,
\* and so does every page fetched and every link enqueued; a link that
\* either filter rejects is passed over without a result, a redirect
\* resolution, a request, an event or an enqueue.
C37_ResultsSatisfyFilters ==
    /\ [](\A k \in DOMAIN results : SatisfiesFilters(results[k].targetUrl))
    /\ [](\A k \in DOMAIN pageLog : SatisfiesFilters(pageLog[k].url))
    /\ [](\A k \in DOMAIN pushed : k > Len(SeedUrls) => SatisfiesFilters(pushed[k]))
    /\ [][(pc = "links" /\ links # <<>> /\ ~SatisfiesFilters(Head(links).targetUrl)) =>
            /\ results' = results
            /\ nResolve' = nResolve
            /\ inFlight' = inFlight
            /\ stream' = stream
            /\ queue' = queue
            /\ visited' = visited
            /\ pc' \in {"links", "loop"}]_vars

\* C37 witness: a crawl that ran to its end within its budget found a link
\* that the path filter accepts and the regex rejects, on the second of
\* its pages, and reported other links
C37_Witness ==
    /\ DoneEmitted
    /\ Len(results) < maxUrls
    /\ RegexActive
    /\ \E k \in DOMAIN pageLog :
        \E l \in DOMAIN pageLog[k].links :
            /\ PathFilterAccepts(pageLog[k].links[l].targetUrl)
            /\ ~RegexTest(req.urlFilter, pageLog[k].links[l].targetUrl)
    /\ \E k \in DOMAIN results : IsLinkResult(results[k])
    /\ Len(pageLog) >= 2

PathFiltered == call.fn = "matchesPathFilter" /\ call.done

\* a prefix taken without its trailing slashes
WithoutTrailingSlashes(p) ==
    SubSeq(p, 1, Cardinality({i \in DOMAIN p : \E j \in i..Len(p) : p[j] # "/"}))

\* path = p, or path starts with p + "/"
MatchesPrefix(path, prefix) ==
    LET p == WithoutTrailingSlashes(prefix)
    IN \/ path = p
       \/ /\ Len(path) > Len(p)
          /\ \A i \in DOMAIN p : path[i] = p[i]
          /\ path[Len(p) + 1] = "/"

\* C38: matchesPathFilter accepts a URL if and only if its path matches no
\* exclude prefix and the include list is empty or the path matches some
\* include prefix, a path matching a prefix p, taken without trailing
\* slashes, exactly when path = p or path starts with p + "/"; so an
\* exclude match overrides an include match.
C38_PathFilterAcceptsIff ==
    (PathFiltered /\ CanParse(call.arg[1])) =>
        LET path == Pathname(call.arg[1])
            inc == call.arg[2]
            ex == call.arg[3]
        IN call.ret.accepted <=>
            /\ \A i \in DOMAIN ex : ~MatchesPrefix(path, ex[i])
            /\ (inc = <<>> \/ \E i \in DOMAIN inc : MatchesPrefix(path, inc[i]))

\* C38 witness: a path that an include prefix and an exclude prefix both
\* match is rejected, the prefixes being written with a trailing slash
C38_Witness ==
    /\ PathFiltered
    /\ call.arg[1] = <<"https://example.com", "/", "a", "/", "a">>
    /\ call.arg[2] = <<<<"/", "a", "/">>>>
    /\ call.arg[3] = <<<<"/", "a", "/">>>>
    /\ ~call.ret.accepted

\* the request lies inside the ranges the claim names
InsideRanges ==
    /\ \A i \in DOMAIN req.urls :
        normalizeUrl(req.urls[i]) # NULL => isAllowedUrl(normalizeUrl(req.urls[i]))
    /\ req.pathInclude = <<>> /\ req.pathExclude = <<>>
    /\ Len(req.urlFilter) <= UrlFilterLimit
    /\ req.maxUrls \in MinMaxUrls..MaxMaxUrls
    /\ req.retries \in MinRetries..MaxRetries

\* the URLs the handler is about to test: the head of the frontier and the
\* links of the page being processed
UrlsAtTest ==
    {queue[k].url : k \in DOMAIN queue} \cup {links[k].targetUrl : k \in DOMAIN links}

\* C39: for a request inside the ranges the two copies of the streaming
\* handler emit the same events against the same web.  Their texts differ
\* only in the budget, the retry count, the compiled filter, the seed
\* condition and the filter test; in every state of a crawl these have the
\* same value in both copies, so every step of the one copy is a step of
\* the other, with the same events.
C39_CopiesAgreeInsideRanges ==
    InsideRanges =>
        /\ maxUrls = maxUrlsOlder
        /\ retries = retriesOlder
        /\ urlFilterRegex(req.urlFilter) = urlFilterRegexOlder(req.urlFilter)
        /\ \A i \in DOMAIN req.urls :
            \A seen \in SUBSET {normalizeUrl(req.urls[j]) : j \in DOMAIN req.urls} :
                SeedAccepted(normalizeUrl(req.urls[i]), seen)
                    = SeedAcceptedOlder(normalizeUrl(req.urls[i]), seen)
        /\ \A u \in UrlsAtTest : PassesFilters(u) = PassesFiltersOlder(u)

\* C39 witness: a crawl with the largest budget and a filter of exactly 200
\* characters has skipped a seed the filter rejects, reported links and
\* completed
C39_Witness ==
    /\ InsideRanges
    /\ req.maxUrls = MaxMaxUrls
    /\ Len(req.urlFilter) = UrlFilterLimit
    /\ DoneEmitted
    /\ results # <<>>
    /\ \E k \in DOMAIN pushed : pushed[k] = uC
    /\ \A k \in DOMAIN pageLog : pageLog[k].url # uC

====
